---- MODULE Spec2Model ----
(***************************************************************************)
(* Model of the studycapt toolkit: the SCoA decoder of scoa.py and, of     *)
(* captstream.py, the CAPT packet extractor, the packet offset scanner and *)
(* the page reader get_page, each with the constructor of its class.       *)
(*                                                                         *)
(* Python generators are modelled at the granularity of their observable   *)
(* suspension points: one step of SCoADecoder.decode reads one opcode      *)
(* (with every byte the code reads eagerly for it) or emits one byte.      *)
(* Indices keep the 0-based values of the source; sequences are 1-based,   *)
(* so the source's s[i] is s[i+1] here.                                    *)
(***************************************************************************)
EXTENDS Integers, Sequences, FiniteSets, TLC

\* ------------------------------------------------------------------ bounds
MaxIn == 3
MaxLineSize == 2
MaxPackets == 3
MaxN == 1
MaxScanPackets == 4
MaxPages == 2
MaxScans == 2
MaxOpenPages == 1
MaxV == 1
MaxField == 2
MaxK == 1
MaxFramed == 3
MaxTail == 2
MaxAgain == 2
MaxDecodes == 2

\* ------------------------------------------------------------- bit helpers
RECURSIVE BitAnd(_, _)
BitAnd(a, b) ==
    IF a = 0 \/ b = 0 THEN 0
    ELSE (a % 2) * (b % 2) + 2 * BitAnd(a \div 2, b \div 2)

RECURSIVE BitOr(_, _)
BitOr(a, b) ==
    IF a = 0 THEN b
    ELSE IF b = 0 THEN a
    ELSE (IF a % 2 = 1 \/ b % 2 = 1 THEN 1 ELSE 0) + 2 * BitOr(a \div 2, b \div 2)

Shl(a, k) == a * (2 ^ k)

Shr(a, k) == a \div (2 ^ k)

Min(a, b) == IF a <= b THEN a ELSE b

\* captstream.WORD: (int(hi) << 8) | int(lo)
WORD(lo, hi) == BitOr(Shl(hi, 8), lo)

\* ------------------------------------------------- scoa.py opcode constants
SCOA_OLD_NEW == 0
SCOA_OLD_REPEAT == 64
SCOA_REPEAT_NEW == 192
SCOA_LONG_OLDB == 128
SCOA_LONG_OLDB_248 == 159
SCOA_LOLD_NEWB == 0
SCOA_LOLD_REPEAT == 64
SCOA_LOLD_WITH_LONG == 160
SCOA_LOLD_REPEAT_LONG == 128
SCOA_LOLD_NEW_LONG == 192
SCOA_LONG_REPEAT == 160
SCOA_LR_LONG_NEW_REPEAT == 64
SCOA_LR_NEWB == 0
SCOA_LR_OLD_NEW_LONG == 192
SCOA_LR_OLD_REPEAT_LONG == 128
SCOA_NOP == 64
SCOA_EOL == 65
SCOA_EOP == 66
UINT_3_MASK_HI == 56
UINT_3_MASK_LO == 7
UINT_5_MASK == 31
PREFIX_2_MASK == 192
PREFIX_3_MASK == 224
NP_PER_9F == 248

\* (b & UINT_3_MASK_HI) >> 3, b & UINT_3_MASK_LO, b & UINT_5_MASK
Hi3(b) == Shr(BitAnd(b, UINT_3_MASK_HI), 3)

Lo3(b) == BitAnd(b, UINT_3_MASK_LO)

Lo5(b) == BitAnd(b, UINT_5_MASK)

\* ------------------------------------------------------------------- state
VARIABLES
    line_size,  \* SCoADecoder.line_size
    buffer,     \* SCoADecoder._buffer
    i_buf,      \* SCoADecoder._i_buf
    i_line,     \* SCoADecoder._i_line
    i_in,       \* SCoADecoder._i_in
    count_9f,   \* SCoADecoder._count_9f
    counts,     \* SCoADecoder._counts
    biter,      \* the bytes the input iterator of decode will yield
    pos,        \* number of bytes decode has taken from biter
    pc,         \* position of the decode generator
    err,        \* exception that ended decode, "none" if none
    wo,         \* what is left of the chain returned by _writeout
    out,        \* history: bytes yielded since construction
    okind,      \* history: segment each yielded byte came from
    op,         \* history: the opcode last read, the state it was read in, and
                \* whether a sub-opcode so far matched no test of its chain
    total,      \* history: sum of _counts over the opcodes processed
    prior,      \* history: the number of calls of decode on the object and the
                \* state the object was in at the last call
    xbytes,     \* extract_packets: the bytes the source iterator b will yield
    bpos,       \* number of bytes extract_packets has taken from b
    opcode,     \* extract_packets argument
    end_code,   \* extract_packets argument
    n,          \* extract_packets argument: <<>> is None, <<v>> the int v
    yield_end,  \* extract_packets argument
    last_byte,  \* extract_packets local
    i,          \* extract_packets local
    termi,      \* extract_packets local
    vleft,      \* payload bytes the running for j in range(vlen) still owes
    xpc,        \* position of the extract_packets generator
    yielded,    \* history: bytes extract_packets has yielded
    packets,    \* history: the packets the source bytes were framed from
    sbytes,     \* _packet_first_offsets: the bytes the source iterator b will yield
    opcodes,    \* _packet_first_offsets argument
    pfo,        \* the frame of the _packet_first_offsets generator: its locals,
                \* the bytes taken from b (pos), its position (pc) and, as
                \* history, the tuples it has yielded (out)
    spackets,   \* history: the packets sbytes was framed from
    sprefix,    \* history: the bytes of sbytes before the first packet
    file,       \* the bytes of the job file at CAPTStream.path
    version,    \* CAPTStream._config['version']
    offsets,    \* CAPTStream.offsets
    ret,        \* what the last call of get_page returned or raised
    scans,      \* history: the number of scans of the file for page offsets
    ctor,       \* history: the arguments of CAPTStream(...) and how it ended
    pages       \* history: the pages the file was built from

scoaVars == <<line_size, buffer, i_buf, i_line, i_in, count_9f, counts,
              biter, pos, pc, err, wo, out, okind, op, total, prior>>

extractVars == <<xbytes, bpos, opcode, end_code, n, yield_end, last_byte, i, termi,
                 vleft, xpc, yielded, packets>>

scanVars == <<sbytes, opcodes, pfo, spackets, sprefix>>

pageVars == <<file, version, offsets, ret, scans, ctor, pages>>

vars == <<scoaVars, extractVars, scanVars, pageVars>>

notScoa == <<extractVars, scanVars, pageVars>>

notExtract == <<scoaVars, scanVars, pageVars>>

notScan == <<scoaVars, extractVars, pageVars>>

notPage == <<scoaVars, extractVars, scanVars>>

\* ------------------------------------------------------------------ inputs
\* One byte of every dispatch class of decode: NOP, EOL, EOP, 00 001 010,
\* 01 010 010, 11 010 010, 100 00001, 0x9F, 101 00001. Each also serves as a
\* sub-opcode, a repeat byte or a literal.
ScoaBytes == {64, 65, 66, 10, 82, 210, 129, 159, 161}

InitValues == {240}

RECURSIVE SeqsUpTo(_, _)
SeqsUpTo(S, k) ==
    IF k = 0 THEN {<<>>}
    ELSE LET shorter == SeqsUpTo(S, k - 1)
         IN shorter \cup {Append(s, x) : s \in {t \in shorter : Len(t) = k - 1}, x \in S}

\* ------------------------------------------------------- opcode evaluation
\* The result of reading one opcode: res is "ok", "eop", "stop" (a next(biter)
\* raised StopIteration) or "bad" (the ValueError of the last else branch);
\* last is the number of bytes taken from biter so far; din is what the
\* branch added to _i_in before line 294; zero tells that ub yields zeroes
\* instead of input bytes; fell tells that a sub-opcode byte matched no test
\* of its if/elif chain, which has no else.
R(res, last, np, npx, nr, nu, rb, zero, din) ==
    [res |-> res, last |-> last, np |-> np, npx |-> npx, nr |-> nr, nu |-> nu,
     rb |-> rb, zero |-> zero, din |-> din, fell |-> FALSE]

Fell(last, np, npx, din) ==
    [res |-> "ok", last |-> last, np |-> np, npx |-> npx, nr |-> 0, nu |-> 0,
     rb |-> 0, zero |-> FALSE, din |-> din, fell |-> TRUE]

Stop(s, din) == R("stop", Len(s), 0, 0, 0, 0, 0, FALSE, din)

\* s[p] of the source's iterator, p counted from 1; -1 stands for StopIteration
Nxt(s, p) == IF p <= Len(s) THEN s[p] ELSE -1

OldNew(s, p) ==
    LET b == s[p]
    IN R("ok", p, Lo3(b), 0, 0, Hi3(b), 0, FALSE, Hi3(b))

OldRepeat(s, p) ==
    LET b == s[p]
        rb == Nxt(s, p + 1)
    IN IF rb = -1 THEN Stop(s, 0)
       ELSE R("ok", p + 1, Lo3(b), 0, Hi3(b), 0, rb, FALSE, 1)

\* mutant of RepeatNew: with a zero count only the new bytes are written,
\* as zeroes
RepeatNew_NewZeroesOnly(s, p) ==
    LET b == s[p]
        nr == Hi3(b)
        nu == Lo3(b)
        rb == Nxt(s, p + 1)
    IN IF nr > 0 /\ nu > 0
       THEN IF rb = -1 THEN Stop(s, 0)
            ELSE R("ok", p + 1, 0, 0, nr, nu, rb, FALSE, nu)
       ELSE R("ok", p, 0, 0, 0, nu, 0, TRUE, 0)

RepeatNew(s, p) ==
    LET b == s[p]
        nr == Hi3(b)
        nu == Lo3(b)
        rb == Nxt(s, p + 1)
    IN IF nr > 0 /\ nu > 0
       THEN IF rb = -1 THEN Stop(s, 0)
            ELSE R("ok", p + 1, 0, 0, nr, nu, rb, FALSE, nu)
       ELSE R("ok", p, 0, 0, nr, nu, 0, TRUE, 0)

RECURSIVE Count9F(_, _)
Count9F(s, p) ==
    IF p <= Len(s) /\ s[p] = SCOA_LONG_OLDB_248 THEN 1 + Count9F(s, p + 1) ELSE 0

\* mutant of LoldWithLong: the third byte's low bits are not added to np
LoldWithLong_KeepsNp(s, r, npx, np0, din0) ==
    LET nl == Shl(Lo5(s[r]), 3)
        b == Nxt(s, r + 1)
        din1 == din0 + 1
        rb == Nxt(s, r + 2)
        nr == BitOr(BitOr(0, nl), Hi3(b))
        nu == BitOr(BitOr(0, nl), Hi3(b))
    IN IF b = -1 THEN Stop(s, din0)
       ELSE IF BitAnd(b, PREFIX_2_MASK) = SCOA_LOLD_REPEAT_LONG
       THEN IF rb = -1 THEN Stop(s, din1)
            ELSE R("ok", r + 2, np0, npx, nr, 0, rb, FALSE, din1 + 1)
       ELSE IF BitAnd(b, PREFIX_2_MASK) = SCOA_LOLD_NEW_LONG
       THEN R("ok", r + 1, np0, npx, 0, nu, 0, FALSE, din1 + nu)
       ELSE Fell(r + 1, np0, npx, din1)

\* the third byte, after a SCOA_LOLD_WITH_LONG second byte at s[r]
LoldWithLong(s, r, npx, np0, din0) ==
    LET nl == Shl(Lo5(s[r]), 3)
        b == Nxt(s, r + 1)
        din1 == din0 + 1
        rb == Nxt(s, r + 2)
        nr == BitOr(BitOr(0, nl), Hi3(b))
        nu == BitOr(BitOr(0, nl), Hi3(b))
        np == BitOr(np0, Lo3(b))
    IN IF b = -1 THEN Stop(s, din0)
       ELSE IF BitAnd(b, PREFIX_2_MASK) = SCOA_LOLD_REPEAT_LONG
       THEN IF rb = -1 THEN Stop(s, din1)
            ELSE R("ok", r + 2, np, npx, nr, 0, rb, FALSE, din1 + 1)
       ELSE IF BitAnd(b, PREFIX_2_MASK) = SCOA_LOLD_NEW_LONG
       THEN R("ok", r + 1, np, npx, 0, nu, 0, FALSE, din1 + nu)
       ELSE Fell(r + 1, np0, npx, din1)

\* the second byte of an old_Long opcode, at s[r]
LoldSub(s, r, npx, np0, din0) ==
    LET b == s[r]
        rb == Nxt(s, r + 1)
    IN IF BitAnd(b, PREFIX_2_MASK) = SCOA_LOLD_NEWB
       THEN R("ok", r, BitOr(np0, Lo3(b)), npx, 0, Hi3(b), 0, FALSE, din0 + Hi3(b))
       ELSE IF BitAnd(b, PREFIX_2_MASK) = SCOA_LOLD_REPEAT
       THEN IF rb = -1 THEN Stop(s, din0)
            ELSE R("ok", r + 1, BitOr(np0, Lo3(b)), npx, Hi3(b), 0, rb, FALSE, din0 + 1)
       ELSE IF BitAnd(b, PREFIX_3_MASK) = SCOA_LOLD_WITH_LONG
       THEN LoldWithLong(s, r, npx, np0, din0)
       ELSE Fell(r, np0, npx, din0)

LongOldb(s, p) ==
    LET npx == Count9F(s, p)
        q == p + npx
        b == Nxt(s, q)
        ext == BitAnd(b, PREFIX_3_MASK) = SCOA_LONG_OLDB
        np0 == IF ext THEN Shl(Lo5(b), 3) ELSE 0
        r == IF ext THEN q + 1 ELSE q
        din0 == IF ext THEN npx + 1 ELSE npx
    IN IF b = -1 THEN Stop(s, npx - 1)
       ELSE IF r > Len(s) THEN Stop(s, npx)
       ELSE LoldSub(s, r, npx, np0, din0)

\* mutant of LongRepeat: SCOA_LR_LONG_NEW_REPEAT repeats the byte as often as
\* it copies new bytes
LongRepeat_RepeatsAsNew(s, p) ==
    LET nr0 == Shl(Lo5(s[p]), 3)
        nextb == Nxt(s, p + 1)
        pre == BitAnd(nextb, PREFIX_2_MASK)
        rb == Nxt(s, p + 2)
    IN IF nextb = -1 THEN Stop(s, 0)
       ELSE IF pre = SCOA_LR_OLD_NEW_LONG
       THEN LET nu == BitOr(nr0, Hi3(nextb))
            IN R("ok", p + 1, BitOr(0, Lo3(nextb)), 0, 0, nu, 0, FALSE, nu + 1)
       ELSE IF pre = SCOA_LR_LONG_NEW_REPEAT
       THEN LET nu == BitOr(nr0, Lo3(nextb))
            IN IF rb = -1 THEN Stop(s, 0)
               ELSE R("ok", p + 2, 0, 0, nu, nu, rb, FALSE, nu + 1)
       ELSE IF pre = SCOA_LR_OLD_REPEAT_LONG
       THEN IF rb = -1 THEN Stop(s, 0)
            ELSE R("ok", p + 2, BitOr(0, Lo3(nextb)), 0, BitOr(nr0, Hi3(nextb)), 0,
                   rb, FALSE, 2)
       ELSE IF rb = -1 THEN Stop(s, 0)
            ELSE R("ok", p + 2, 0, 0, BitOr(nr0, Hi3(nextb)), Lo3(nextb), rb, FALSE,
                   Lo3(nextb) + 1)

LongRepeat(s, p) ==
    LET nr0 == Shl(Lo5(s[p]), 3)
        nextb == Nxt(s, p + 1)
        pre == BitAnd(nextb, PREFIX_2_MASK)
        rb == Nxt(s, p + 2)
    IN IF nextb = -1 THEN Stop(s, 0)
       ELSE IF pre = SCOA_LR_OLD_NEW_LONG
       THEN LET nu == BitOr(nr0, Hi3(nextb))
            IN R("ok", p + 1, BitOr(0, Lo3(nextb)), 0, 0, nu, 0, FALSE, nu + 1)
       ELSE IF pre = SCOA_LR_LONG_NEW_REPEAT
       THEN LET nu == BitOr(nr0, Lo3(nextb))
            IN IF rb = -1 THEN Stop(s, 0)
               ELSE R("ok", p + 2, 0, 0, Hi3(nextb), nu, rb, FALSE, nu + 1)
       ELSE IF pre = SCOA_LR_OLD_REPEAT_LONG
       THEN IF rb = -1 THEN Stop(s, 0)
            ELSE R("ok", p + 2, BitOr(0, Lo3(nextb)), 0, BitOr(nr0, Hi3(nextb)), 0,
                   rb, FALSE, 2)
       ELSE IF rb = -1 THEN Stop(s, 0)
            ELSE R("ok", p + 2, 0, 0, BitOr(nr0, Hi3(nextb)), Lo3(nextb), rb, FALSE,
                   Lo3(nextb) + 1)

\* mutant of EolCount: the pad is one byte short
EolCount_Short(lsize, ibuf) == lsize - ibuf - 1

\* np of SCOA_EOL
EolCount(lsize, ibuf) == lsize - ibuf

\* mutant of Dispatch: the test for SCOA_EOP is missing
Dispatch_NoEOP(b) ==
    IF b = SCOA_NOP THEN "NOP"
    ELSE IF b = SCOA_EOL THEN "EOL"
    ELSE IF BitAnd(b, PREFIX_2_MASK) = SCOA_OLD_NEW THEN "OLD_NEW"
    ELSE IF BitAnd(b, PREFIX_2_MASK) = SCOA_OLD_REPEAT THEN "OLD_REPEAT"
    ELSE IF BitAnd(b, PREFIX_2_MASK) = SCOA_REPEAT_NEW THEN "REPEAT_NEW"
    ELSE IF BitAnd(b, PREFIX_3_MASK) = SCOA_LONG_OLDB THEN "LONG_OLDB"
    ELSE IF BitAnd(b, PREFIX_3_MASK) = SCOA_LONG_REPEAT THEN "LONG_REPEAT"
    ELSE "unrecognised"

\* mutant of Dispatch: the test for the prefix 101 is missing
Dispatch_NoLongRepeat(b) ==
    IF b = SCOA_NOP THEN "NOP"
    ELSE IF b = SCOA_EOL THEN "EOL"
    ELSE IF b = SCOA_EOP THEN "EOP"
    ELSE IF BitAnd(b, PREFIX_2_MASK) = SCOA_OLD_NEW THEN "OLD_NEW"
    ELSE IF BitAnd(b, PREFIX_2_MASK) = SCOA_OLD_REPEAT THEN "OLD_REPEAT"
    ELSE IF BitAnd(b, PREFIX_2_MASK) = SCOA_REPEAT_NEW THEN "REPEAT_NEW"
    ELSE IF BitAnd(b, PREFIX_3_MASK) = SCOA_LONG_OLDB THEN "LONG_OLDB"
    ELSE "unrecognised"

\* the if/elif chain on the first byte b of an opcode
Dispatch(b) ==
    IF b = SCOA_NOP THEN "NOP"
    ELSE IF b = SCOA_EOL THEN "EOL"
    ELSE IF b = SCOA_EOP THEN "EOP"
    ELSE IF BitAnd(b, PREFIX_2_MASK) = SCOA_OLD_NEW THEN "OLD_NEW"
    ELSE IF BitAnd(b, PREFIX_2_MASK) = SCOA_OLD_REPEAT THEN "OLD_REPEAT"
    ELSE IF BitAnd(b, PREFIX_2_MASK) = SCOA_REPEAT_NEW THEN "REPEAT_NEW"
    ELSE IF BitAnd(b, PREFIX_3_MASK) = SCOA_LONG_OLDB THEN "LONG_OLDB"
    ELSE IF BitAnd(b, PREFIX_3_MASK) = SCOA_LONG_REPEAT THEN "LONG_REPEAT"
    ELSE "unrecognised"

ReadOpcode(s, p, lsize, ibuf) ==
    LET d == Dispatch(s[p])
    IN CASE d = "NOP" -> R("ok", p, 0, 0, 0, 0, 0, FALSE, 0)
         [] d = "EOL" -> R("ok", p, EolCount(lsize, ibuf), 0, 0, 0, 0, FALSE, 0)
         [] d = "EOP" -> R("eop", p, 0, 0, 0, 0, 0, FALSE, 0)
         [] d = "OLD_NEW" -> OldNew(s, p)
         [] d = "OLD_REPEAT" -> OldRepeat(s, p)
         [] d = "REPEAT_NEW" -> RepeatNew(s, p)
         [] d = "LONG_OLDB" -> LongOldb(s, p)
         [] d = "LONG_REPEAT" -> LongRepeat(s, p)
         [] OTHER -> R("bad", p, 0, 0, 0, 0, 0, FALSE, 0)

\* ---------------------------------------------------------------- writeout
\* self._buffer[self._i_buf : self._i_buf+np], a copy made when _writeout is
\* called; a Python slice stops at the end of the list
OldSlice(buf, ibuf, np) == SubSeq(buf, ibuf + 1, Min(ibuf + np, Len(buf)))

\* mutant of StoreByte: the byte is yielded but not stored
StoreByte_Dropped(buf, ibuf, x) == buf

\* self._buffer[self._i_buf] = x
StoreByte(buf, ibuf, x) == [buf EXCEPT ![ibuf + 1] = x]

\* mutant of NextColumn: the line is left one byte late
NextColumn_Late(col, lsize) == IF col + 1 > lsize THEN 0 ELSE col + 1

\* self._i_buf += 1, and the move to the next line when the line is full
NextColumn(ibuf, lsize) == IF ibuf + 1 >= lsize THEN 0 ELSE ibuf + 1

NextLine(iline, ibuf, lsize) == IF ibuf + 1 >= lsize THEN iline + 1 ELSE iline

\* mutant of StopOutcome: a StopIteration inside the generator ends it
\* silently, as before PEP 479
StopOutcome_Silent(site) == "done"

\* What StopIteration does to the generator: the for statement of line 167
\* ends the loop, and decode returns; a next(biter) call inside the generator
\* body or inside the ub generator expression lets it escape, which ends the
\* generator with RuntimeError (PEP 479).
StopOutcome(site) == IF site = "for" THEN "done" ELSE "error"

NoWriteout == [old |-> <<>>, nr |-> 0, rb |-> 0, nu |-> 0, zero |-> FALSE]

WoEmpty(w) == w.old = <<>> /\ w.nr = 0 /\ w.nu = 0

\* ---------------------------------------------------------------- __init__
\* no decode was called
NoDecode == [calls |-> 0, buffer |-> <<>>, i_buf |-> 0, i_line |-> 0, outlen |-> 0]

\* the first call of decode, on the object as __init__ left it
FirstCall(buf) == [calls |-> 1, buffer |-> buf, i_buf |-> 0, i_line |-> 0, outlen |-> 0]

NoOp == [b |-> -1, at |-> 0, outlen |-> 0, buf |-> <<>>, col |-> 0, fell |-> FALSE]

ScoaInit ==
    /\ line_size \in 1..MaxLineSize
    /\ \E v \in InitValues : buffer = [c \in 1..line_size |-> v]
    /\ i_buf = 0
    /\ i_line = 0
    /\ i_in = 0
    /\ count_9f = 0
    /\ counts = <<0, 0, 0>>
    /\ biter \in SeqsUpTo(ScoaBytes, MaxIn)
    /\ pos = 0
    /\ pc = "opcode"
    /\ err = "none"
    /\ wo = NoWriteout
    /\ out = <<>>
    /\ okind = <<>>
    /\ op = NoOp
    /\ total = 0
    /\ prior = FirstCall(buffer)

\* The arguments of SCoADecoder(line_size, init_value=...): an int, and bytes
\* of any length
LineSizeArgs == (0 - 1)..MaxLineSize

InitValueArgs == SeqsUpTo(InitValues, 2)

\* The checks of __init__ and its [ord(initv),] * self.line_size: ord raises
\* TypeError for b'', and a list times an int below 1 is the empty list
NewBuffer(lsize, initv) ==
    IF Len(initv) > 1 THEN [err |-> "ValueError", buffer |-> <<>>]
    ELSE IF Len(initv) = 0 THEN [err |-> "TypeError", buffer |-> <<>>]
    ELSE IF lsize < 1 THEN [err |-> "none", buffer |-> <<>>]
    ELSE [err |-> "none", buffer |-> [c \in 1..lsize |-> initv[1]]]

\* SCoADecoder(lsize, init_value=initv), and decode(iter(biter)) called on the
\* object if there is one
ScoaNew ==
    /\ \E lsize \in LineSizeArgs, initv \in InitValueArgs :
          /\ line_size = lsize
          /\ buffer = NewBuffer(lsize, initv).buffer
          /\ err = NewBuffer(lsize, initv).err
          /\ biter \in IF err = "none" THEN SeqsUpTo(ScoaBytes, MaxIn) ELSE {<<>>}
    /\ pc = IF err = "none" THEN "opcode" ELSE "raised"
    /\ i_buf = 0
    /\ i_line = 0
    /\ i_in = 0
    /\ count_9f = 0
    /\ counts = <<0, 0, 0>>
    /\ pos = 0
    /\ wo = NoWriteout
    /\ out = <<>>
    /\ okind = <<>>
    /\ op = NoOp
    /\ total = 0
    /\ prior = FirstCall(buffer)

\* Inputs that start with a long opcode or with a REPEAT+NEW opcode: the
\* opcode bytes, with every value up to MaxV of the five-bit fields, up to
\* MaxField of the three-bit fields and up to MaxK bytes 0x9F, then data bytes
\* that differ from each other, then the end of the page or of the input
Fields == 0..MaxField

SubByte(pre, hhh, lll) == 64 * pre + 8 * hhh + lll

Nines(k) == [j \in 1..k |-> SCOA_LONG_OLDB_248]

LongRepeatHeads ==
    {<<SCOA_LONG_REPEAT + v, SubByte(pre, hhh, lll)>> :
        v \in 0..MaxV, pre \in 0..3, hhh \in Fields, lll \in Fields}

RepeatNewHeads == {<<SubByte(3, hhh, lll)>> : hhh \in Fields, lll \in Fields}

LongOldSubs ==
    {<<SubByte(pre, hhh, lll)>> : pre \in 0..1, hhh \in Fields, lll \in Fields}
      \cup {<<SCOA_LOLD_WITH_LONG + w, SubByte(pre, hhh, lll)>> :
                w \in 0..MaxV, pre \in 2..3, hhh \in Fields, lll \in Fields}

LongOldHeads ==
    {Nines(k) \o e \o sub :
        k \in 0..MaxK, e \in {<<>>} \cup {<<SCOA_LONG_OLDB + v>> : v \in 0..MaxV},
        sub \in LongOldSubs} \ LongOldSubs

MaxData == 8 * MaxV + MaxField + 1

DataBytes(m) == [j \in 1..m |-> IF j = 1 THEN 90 ELSE j - 1]

OpcodeInputs ==
    {head \o DataBytes(m) \o end :
        head \in LongRepeatHeads \cup RepeatNewHeads \cup LongOldHeads,
        m \in {0, 1, 3, MaxData}, end \in {<<>>, <<SCOA_EOP>>}}

OpcodeLineSizes == {3, 12}

\* the bytes that follow the first byte of the input: an end of page, a
\* zero, a literal
TailBytes == {SCOA_EOP, 0, 90}

\* SCoADecoder(line_size, init_value=...) and decode(iter(biter)) on an input
\* whose first byte, read in first-opcode position, is any byte value
ScoaAnyFirst ==
    /\ line_size \in 1..MaxLineSize
    /\ \E v \in InitValues : buffer = NewBuffer(line_size, <<v>>).buffer
    /\ \E b \in 0..255, tl \in SeqsUpTo(TailBytes, MaxTail) : biter = <<b>> \o tl
    /\ i_buf = 0
    /\ i_line = 0
    /\ i_in = 0
    /\ count_9f = 0
    /\ counts = <<0, 0, 0>>
    /\ pos = 0
    /\ pc = "opcode"
    /\ err = "none"
    /\ wo = NoWriteout
    /\ out = <<>>
    /\ okind = <<>>
    /\ op = NoOp
    /\ total = 0
    /\ prior = FirstCall(buffer)

\* SCoADecoder(line_size, init_value=...) and decode(iter(biter)) on an input
\* that starts with a long opcode or with a REPEAT+NEW opcode
ScoaLong ==
    /\ line_size \in OpcodeLineSizes
    /\ \E v \in InitValues : buffer = NewBuffer(line_size, <<v>>).buffer
    /\ biter \in OpcodeInputs
    /\ i_buf = 0
    /\ i_line = 0
    /\ i_in = 0
    /\ count_9f = 0
    /\ counts = <<0, 0, 0>>
    /\ pos = 0
    /\ pc = "opcode"
    /\ err = "none"
    /\ wo = NoWriteout
    /\ out = <<>>
    /\ okind = <<>>
    /\ op = NoOp
    /\ total = 0
    /\ prior = FirstCall(buffer)

\* ------------------------------------------------------------------ decode
\* for b in biter: ... one opcode read, up to the call of _writeout
DecodeOpcode ==
    /\ pc = "opcode"
    /\ pos < Len(biter)
    /\ LET r == ReadOpcode(biter, pos + 1, line_size, i_buf)
           total_np == NP_PER_9F * r.npx + r.np
           w == [old |-> OldSlice(buffer, i_buf, total_np), nr |-> r.nr,
                 rb |-> r.rb, nu |-> r.nu, zero |-> r.zero]
       IN /\ r.res \in {"ok", "bad"}
          /\ op' = [b |-> biter[pos + 1], at |-> pos, outlen |-> Len(out),
                    buf |-> buffer, col |-> i_buf, fell |-> op.fell \/ r.fell]
          /\ pos' = r.last
          /\ IF r.res = "bad"
             THEN /\ pc' = "error"
                  /\ err' = "ValueError"
                  /\ UNCHANGED <<i_in, count_9f, counts, wo, total>>
             ELSE /\ i_in' = i_in + r.din + 1
                  /\ count_9f' = r.npx
                  /\ counts' = <<total_np, r.nr, r.nu>>
                  /\ total' = total + total_np + r.nr + r.nu
                  /\ wo' = w
                  /\ pc' = IF WoEmpty(w) THEN "opcode" ELSE "writeout"
                  /\ err' = err
    /\ UNCHANGED <<line_size, buffer, i_buf, i_line, biter, out, okind>>
    /\ UNCHANGED prior
    /\ UNCHANGED notScoa

\* elif b == SCOA_EOP: return
DecodeEOP ==
    /\ pc = "opcode"
    /\ pos < Len(biter)
    /\ ReadOpcode(biter, pos + 1, line_size, i_buf).res = "eop"
    /\ op' = [b |-> biter[pos + 1], at |-> pos, outlen |-> Len(out),
              buf |-> buffer, col |-> i_buf, fell |-> op.fell]
    /\ pos' = pos + 1
    /\ pc' = "done"
    /\ UNCHANGED <<line_size, buffer, i_buf, i_line, i_in, count_9f, counts,
                   biter, err, wo, out, okind, total>>
    /\ UNCHANGED prior
    /\ UNCHANGED notScoa

\* a next(biter) of the opcode's branch finds the input exhausted
DecodeUnexpectedEnd ==
    /\ pc = "opcode"
    /\ pos < Len(biter)
    /\ LET r == ReadOpcode(biter, pos + 1, line_size, i_buf)
       IN /\ r.res = "stop"
          /\ pos' = r.last
          /\ i_in' = i_in + r.din
          /\ pc' = StopOutcome("next")
          /\ err' = IF StopOutcome("next") = "error" THEN "RuntimeError" ELSE err
    /\ op' = [b |-> biter[pos + 1], at |-> pos, outlen |-> Len(out),
              buf |-> buffer, col |-> i_buf, fell |-> op.fell]
    /\ UNCHANGED <<line_size, buffer, i_buf, i_line, count_9f, counts,
                   biter, wo, out, okind, total>>
    /\ UNCHANGED prior
    /\ UNCHANGED notScoa

\* the for statement finds the input exhausted
DecodeExhausted ==
    /\ pc = "opcode"
    /\ pos = Len(biter)
    /\ pc' = StopOutcome("for")
    /\ UNCHANGED <<line_size, buffer, i_buf, i_line, i_in, count_9f, counts,
                   biter, pos, err, wo, out, okind, op, total>>
    /\ UNCHANGED prior
    /\ UNCHANGED notScoa

\* one round of the loop over _writeout's chain: old bytes first, then the
\* repeated byte, then the new bytes, which ub takes from biter only now
Writeout ==
    /\ pc = "writeout"
    /\ ~(wo.old = <<>> /\ wo.nr = 0 /\ ~wo.zero /\ pos = Len(biter))
    /\ LET kind == IF wo.old # <<>> THEN "old"
                   ELSE IF wo.nr > 0 THEN "rep" ELSE "new"
           x == IF kind = "old" THEN Head(wo.old)
                ELSE IF kind = "rep" THEN wo.rb
                ELSE IF wo.zero THEN 0 ELSE biter[pos + 1]
           w == IF kind = "old" THEN [wo EXCEPT !.old = Tail(wo.old)]
                ELSE IF kind = "rep" THEN [wo EXCEPT !.nr = wo.nr - 1]
                ELSE [wo EXCEPT !.nu = wo.nu - 1]
       IN /\ pos' = IF kind = "new" /\ ~wo.zero THEN pos + 1 ELSE pos
          /\ wo' = w
          /\ IF i_buf < Len(buffer)
             THEN /\ buffer' = StoreByte(buffer, i_buf, x)
                  /\ out' = Append(out, x)
                  /\ okind' = Append(okind, kind)
                  /\ i_buf' = NextColumn(i_buf, line_size)
                  /\ i_line' = NextLine(i_line, i_buf, line_size)
                  /\ pc' = IF WoEmpty(w) THEN "opcode" ELSE "writeout"
                  /\ err' = err
             ELSE \* list assignment index out of range
                  /\ pc' = "error"
                  /\ err' = "IndexError"
                  /\ UNCHANGED <<buffer, out, okind, i_buf, i_line>>
    /\ UNCHANGED <<line_size, i_in, count_9f, counts, biter, op, total>>
    /\ UNCHANGED prior
    /\ UNCHANGED notScoa

\* the ub generator's next(biter) finds the input exhausted
WriteoutUnexpectedEnd ==
    /\ pc = "writeout"
    /\ wo.old = <<>> /\ wo.nr = 0 /\ wo.nu > 0 /\ ~wo.zero
    /\ pos = Len(biter)
    /\ pc' = StopOutcome("next")
    /\ err' = IF StopOutcome("next") = "error" THEN "RuntimeError" ELSE err
    /\ UNCHANGED <<line_size, buffer, i_buf, i_line, i_in, count_9f, counts,
                   biter, pos, wo, out, okind, op, total>>
    /\ UNCHANGED prior
    /\ UNCHANGED notScoa

\* the opcodes of the streams given to an object that is decoded with more
\* than once: one previous-line byte and one new byte, the rest of the line
\* from the previous line, end of page, two previous-line bytes and three
\* copies of the next byte (also the new byte of the first)
AgainBytes == {9, SCOA_EOL, SCOA_EOP, 90}

\* SCoADecoder(line_size, init_value=...) and a first decode(iter(biter))
ScoaFirst ==
    /\ line_size \in 1..MaxLineSize
    /\ \E v \in InitValues : buffer = NewBuffer(line_size, <<v>>).buffer
    /\ biter \in SeqsUpTo(AgainBytes, MaxIn)
    /\ i_buf = 0
    /\ i_line = 0
    /\ i_in = 0
    /\ count_9f = 0
    /\ counts = <<0, 0, 0>>
    /\ pos = 0
    /\ pc = "opcode"
    /\ err = "none"
    /\ wo = NoWriteout
    /\ out = <<>>
    /\ okind = <<>>
    /\ op = NoOp
    /\ total = 0
    /\ prior = FirstCall(buffer)

\* mutant of DecodeAgain: the line state is set as __init__ sets it
DecodeAgain_Reinitialised ==
    /\ pc \in {"done", "error"}
    /\ prior.calls < MaxDecodes
    /\ biter' \in SeqsUpTo(AgainBytes, MaxAgain)
    /\ i_in' = 0
    /\ pos' = 0
    /\ pc' = "opcode"
    /\ err' = "none"
    /\ wo' = NoWriteout
    /\ buffer' = [c \in 1..line_size |-> 240]
    /\ i_buf' = 0
    /\ i_line' = 0
    /\ prior' = [calls |-> prior.calls + 1, buffer |-> buffer, i_buf |-> i_buf,
                 i_line |-> i_line, outlen |-> Len(out)]
    /\ UNCHANGED <<line_size, count_9f, counts, out, okind, op, total>>
    /\ UNCHANGED notScoa

\* decode(iter(bs)) on an object whose last decode has ended, up to its
\* first read of an opcode: self._i_in = 0, and a new generator with its own
\* locals; no other attribute is assigned
DecodeAgain ==
    /\ pc \in {"done", "error"}
    /\ prior.calls < MaxDecodes
    /\ biter' \in SeqsUpTo(AgainBytes, MaxAgain)
    /\ i_in' = 0
    /\ pos' = 0
    /\ pc' = "opcode"
    /\ err' = "none"
    /\ wo' = NoWriteout
    /\ prior' = [calls |-> prior.calls + 1, buffer |-> buffer, i_buf |-> i_buf,
                 i_line |-> i_line, outlen |-> Len(out)]
    /\ UNCHANGED <<line_size, buffer, i_buf, i_line, count_9f, counts, out, okind,
                   op, total>>
    /\ UNCHANGED notScoa

ScoaNext ==
    \/ DecodeOpcode
    \/ DecodeEOP
    \/ DecodeUnexpectedEnd
    \/ DecodeExhausted
    \/ Writeout
    \/ WriteoutUnexpectedEnd

\* no decoder constructed
ScoaIdle ==
    /\ line_size = 0
    /\ buffer = <<>>
    /\ i_buf = 0
    /\ i_line = 0
    /\ i_in = 0
    /\ count_9f = 0
    /\ counts = <<0, 0, 0>>
    /\ biter = <<>>
    /\ pos = 0
    /\ pc = "idle"
    /\ err = "none"
    /\ wo = NoWriteout
    /\ out = <<>>
    /\ okind = <<>>
    /\ op = NoOp
    /\ total = 0
    /\ prior = NoDecode

\* ------------------------------------------------ captstream.py: constants
PACKET_HEADER_SIZE == 4
CAPT_RASTER_SETUP_END == <<161, 208>>
SCOA_RASTER_DATA == <<160, 192>>
CAPT_RASTER_END == <<162, 208>>

\* ---------------------------------------------------- CAPT packet framing
\* A packet on the wire: two opcode bytes, the total length as a
\* little-endian word, the payload.
Frame(p) ==
    LET L == PACKET_HEADER_SIZE + Len(p.payload)
    IN p.code \o <<L % 256, L \div 256>> \o p.payload

RECURSIVE Flatten(_)
Flatten(ps) == IF ps = <<>> THEN <<>> ELSE Frame(Head(ps)) \o Flatten(Tail(ps))

\* payloads of the packets of the input streams; some hold the bytes of an
\* opcode
Payloads == {<<>>, <<154>>, <<160, 192>>}

PacketCodes == {SCOA_RASTER_DATA, CAPT_RASTER_END, CAPT_RASTER_SETUP_END}

Packets == [code : PacketCodes, payload : Payloads]

\* ---------------------------------------------------------- extract_packets
\* truth value of the argument n: None and 0 are false
Truthy(v) == v # <<>> /\ v[1] # 0

\* k = n or -1
KOf(v) == IF Truthy(v) THEN v[1] ELSE -1

\* mutant of PayloadLen: the header size is not subtracted
PayloadLen_NoHeader(vl, vh) == WORD(vl, vh)

\* vlen = WORD(vl, vh)-4
PayloadLen(vl, vh) == WORD(vl, vh) - 4

\* if n and i >= k: return
LimitReached(v, cnt) == Truthy(v) /\ cnt >= KOf(v)

\* mutant of SkipsEnd: the payload of an end packet is never yielded
SkipsEnd_Always(t, ye) == t

\* if termi and not yield_end: the payload is read and not yielded
SkipsEnd(t, ye) == t /\ ~ye

ExtractIdle ==
    /\ xbytes = <<>>
    /\ bpos = 0
    /\ opcode = <<>>
    /\ end_code = <<>>
    /\ n = <<>>
    /\ yield_end = FALSE
    /\ last_byte = -1
    /\ i = 0
    /\ termi = FALSE
    /\ vleft = 0
    /\ xpc = "idle"
    /\ yielded = <<>>
    /\ packets = <<>>

\* the call extract_packets(b, opcode, end_code, n, yield_end), before the
\* first next() on the generator it returns
ExtractInit ==
    /\ packets \in SeqsUpTo(Packets, MaxPackets)
    /\ xbytes = Flatten(packets)
    /\ bpos = 0
    /\ opcode = SCOA_RASTER_DATA
    /\ end_code = CAPT_RASTER_END
    /\ n \in {<<>>} \cup {<<v>> : v \in 0..MaxN}
    /\ yield_end \in BOOLEAN
    /\ last_byte = -1
    /\ i = 0
    /\ termi = FALSE
    /\ vleft = 0
    /\ xpc = "start"
    /\ yielded = <<>>

\* last_byte = next(b); a StopIteration here escapes the generator body
ExtractStart ==
    /\ xpc = "start"
    /\ IF bpos < Len(xbytes)
       THEN /\ last_byte' = xbytes[bpos + 1]
            /\ bpos' = bpos + 1
            /\ xpc' = "scan"
       ELSE /\ xpc' = "error"
            /\ UNCHANGED <<last_byte, bpos>>
    /\ UNCHANGED <<xbytes, opcode, end_code, n, yield_end, i, termi, vleft,
                   yielded, packets>>
    /\ UNCHANGED notExtract

\* for x in b: the source is exhausted
ExtractExhausted ==
    /\ xpc = "scan"
    /\ bpos = Len(xbytes)
    /\ xpc' = "done"
    /\ UNCHANGED <<xbytes, bpos, opcode, end_code, n, yield_end, last_byte, i,
                   termi, vleft, yielded, packets>>
    /\ UNCHANGED notExtract

\* if n and i >= k: return
ExtractLimit ==
    /\ xpc = "scan"
    /\ bpos < Len(xbytes)
    /\ LimitReached(n, i)
    /\ bpos' = bpos + 1
    /\ xpc' = "done"
    /\ UNCHANGED <<xbytes, opcode, end_code, n, yield_end, last_byte, i,
                   termi, vleft, yielded, packets>>
    /\ UNCHANGED notExtract

\* a window that is neither opcode nor end_code: last_byte = x
ExtractSlide ==
    /\ xpc = "scan"
    /\ bpos < Len(xbytes)
    /\ ~LimitReached(n, i)
    /\ LET x == xbytes[bpos + 1]
           code == <<last_byte, x>>
       IN /\ code # opcode
          /\ code # end_code
          /\ termi' = FALSE
          /\ last_byte' = x
          /\ bpos' = bpos + 1
    /\ UNCHANGED <<xbytes, opcode, end_code, n, yield_end, i, vleft, xpc,
                   yielded, packets>>
    /\ UNCHANGED notExtract

\* a window equal to opcode or end_code: vl, vh are read; an end_code packet
\* with yield_end false is skipped and the generator returns, any other goes
\* on to yield its payload. Every next(b) may find the source exhausted.
ExtractMatch ==
    /\ xpc = "scan"
    /\ bpos < Len(xbytes)
    /\ ~LimitReached(n, i)
    /\ LET x == xbytes[bpos + 1]
           code == <<last_byte, x>>
           t == code = end_code
           vl == xbytes[bpos + 2]
           vh == xbytes[bpos + 3]
           vlen == PayloadLen(vl, vh)
           skip == IF vlen > 0 THEN vlen ELSE 0
       IN /\ code = opcode \/ t
          /\ termi' = t
          /\ IF bpos + 3 > Len(xbytes)
             THEN /\ bpos' = Len(xbytes)
                  /\ xpc' = "error"
                  /\ UNCHANGED <<last_byte, i, vleft>>
             ELSE IF SkipsEnd(t, yield_end)
             THEN IF bpos + 3 + skip > Len(xbytes)
                  THEN /\ bpos' = Len(xbytes)
                       /\ xpc' = "error"
                       /\ UNCHANGED <<last_byte, i, vleft>>
                  ELSE /\ bpos' = bpos + 3 + skip
                       /\ xpc' = "done"
                       /\ UNCHANGED <<last_byte, i, vleft>>
             ELSE IF skip > 0
             THEN /\ bpos' = bpos + 3
                  /\ vleft' = skip
                  /\ xpc' = "yield"
                  /\ UNCHANGED <<last_byte, i>>
             ELSE /\ bpos' = bpos + 3
                  /\ vleft' = 0
                  /\ xpc' = IF t THEN "done" ELSE "scan"
                  /\ i' = IF t THEN i ELSE i + 1
                  /\ last_byte' = IF t THEN last_byte ELSE x
    /\ UNCHANGED <<xbytes, opcode, end_code, n, yield_end, yielded, packets>>
    /\ UNCHANGED notExtract

\* for j in range(vlen): yield next(b); after the last one: if termi: return,
\* i += 1 and last_byte = x, the second byte of the matched opcode
ExtractYield ==
    /\ xpc = "yield"
    /\ bpos < Len(xbytes)
    /\ yielded' = Append(yielded, xbytes[bpos + 1])
    /\ bpos' = bpos + 1
    /\ vleft' = vleft - 1
    /\ IF vleft > 1
       THEN UNCHANGED <<xpc, i, last_byte>>
       ELSE /\ xpc' = IF termi THEN "done" ELSE "scan"
            /\ i' = IF termi THEN i ELSE i + 1
            /\ last_byte' = IF termi THEN last_byte ELSE opcode[2]
    /\ UNCHANGED <<xbytes, opcode, end_code, n, yield_end, termi, packets>>
    /\ UNCHANGED notExtract

\* the next(b) of a payload byte finds the source exhausted
ExtractTruncated ==
    /\ xpc = "yield"
    /\ bpos = Len(xbytes)
    /\ xpc' = "error"
    /\ UNCHANGED <<xbytes, bpos, opcode, end_code, n, yield_end, last_byte, i,
                   termi, vleft, yielded, packets>>
    /\ UNCHANGED notExtract

ExtractNext ==
    \/ ExtractStart
    \/ ExtractExhausted
    \/ ExtractLimit
    \/ ExtractSlide
    \/ ExtractMatch
    \/ ExtractYield
    \/ ExtractTruncated

\* ---------------------------------------------------- _packet_first_offsets
CAPT_RASTER_SETUP == <<160, 208>>
CAPT_HISCOA_PARAMS == <<164, 208>>
HISCOA_RASTER_DATA == <<0, 128>>

\* CONFIG[version]['paging_opcodes']
PagingOpcodes(v) ==
    IF v = 1 THEN <<CAPT_RASTER_SETUP, SCOA_RASTER_DATA>>
    ELSE <<CAPT_RASTER_SETUP, CAPT_HISCOA_PARAMS, HISCOA_RASTER_DATA>>

\* offsets = [0,] * n_codes
ZeroOffsets(codes) == [j \in 1..Len(codes) |-> 0]

\* vskip = WORD(vl, vh)-4 or 1
SkipCount_Half(vl, vh) == (WORD(vl, vh) - 4) \div 2

SkipCount(vl, vh) == IF WORD(vl, vh) - 4 = 0 THEN 1 ELSE WORD(vl, vh) - 4

\* the number of next(b) calls of for j in range(vskip)
RangeLen(k) == IF k > 0 THEN k ELSE 0

\* the frame at the call _packet_first_offsets(b, opcodes), bias and verify
\* left at their defaults, before the first next() on the generator
PfoCall(codes) ==
    [pc |-> "start", pos |-> 0, last_byte |-> -1, x |-> -1, i |-> 0, i_op |-> 0,
     bias |-> 0, offsets |-> ZeroOffsets(codes), out |-> <<>>]

\* a next(b) found the source exhausted: the StopIteration leaves the
\* generator body
PfoStop(bs, f) == [f EXCEPT !.pc = "error", !.pos = Len(bs)]

\* lines 180-188 after a match on the window ending with f.x: the length
\* word is read, vskip bytes are skipped, i and i_op move on
PfoSkip(bs, codes, f) ==
    IF f.pos + 2 > Len(bs) THEN PfoStop(bs, f)
    ELSE LET vskip == SkipCount(bs[f.pos + 1], bs[f.pos + 2])
         IN IF f.pos + 2 + RangeLen(vskip) > Len(bs) THEN PfoStop(bs, f)
            ELSE [f EXCEPT !.pc = "scan",
                           !.pos = f.pos + 2 + RangeLen(vskip),
                           !.i = f.i + vskip + 2 + 1,
                           !.i_op = (f.i_op + 1) % Len(codes),
                           !.last_byte = f.x]

\* one run of the generator from a suspension point (or from one window of
\* the for loop) to the next
PfoStep(bs, codes, f) ==
    IF f.pc = "start"
    THEN IF f.pos < Len(bs)
         THEN [f EXCEPT !.pc = "scan", !.last_byte = bs[f.pos + 1], !.pos = f.pos + 1,
                        !.i = 1]
         ELSE PfoStop(bs, f)
    ELSE IF f.pc = "yielded" THEN PfoSkip(bs, codes, f)
    ELSE IF f.pc = "scan"
    THEN IF f.pos = Len(bs) THEN [f EXCEPT !.pc = "done"]
         ELSE LET x == bs[f.pos + 1]
                  code == <<f.last_byte, x>>
              IN IF code = codes[f.i_op + 1]
                 THEN LET offs == [f.offsets EXCEPT ![f.i_op + 1] = f.i - 1 + f.bias]
                          g == [f EXCEPT !.x = x, !.pos = f.pos + 1]
                      IN IF f.i_op >= Len(codes) - 1
                         THEN [g EXCEPT !.pc = "yielded",
                                        !.out = Append(f.out, offs),
                                        !.offsets = ZeroOffsets(codes)]
                         ELSE PfoSkip(bs, codes, [g EXCEPT !.offsets = offs])
                 ELSE [f EXCEPT !.last_byte = x, !.i = f.i + 1, !.pos = f.pos + 1]
    ELSE f

\* a packet on the wire with the declared length p.len, which a malformed
\* packet has below the header size
ScanFrame(p) == p.code \o <<p.len % 256, p.len \div 256>> \o p.payload

RECURSIVE ScanFlatten(_)
ScanFlatten(ps) ==
    IF ps = <<>> THEN <<>> ELSE ScanFrame(Head(ps)) \o ScanFlatten(Tail(ps))

\* declared lengths of the packets of the scanned streams: malformed, header
\* only, with a payload
ScanLens == {0, 4, 6}

ScanPackets ==
    {[code |-> c, len |-> l, payload |-> [j \in 1..RangeLen(l - 4) |-> 154]] :
        c \in {CAPT_RASTER_SETUP, SCOA_RASTER_DATA}, l \in ScanLens}

\* bytes before the first packet
ScanPrefixes == {<<>>, <<154>>}

\* how many bytes the end of the source lacks
ScanCuts == {0, 1}

ScanIdle ==
    /\ sbytes = <<>>
    /\ opcodes = <<>>
    /\ pfo = [pc |-> "idle"]
    /\ spackets = <<>>
    /\ sprefix = <<>>

ScanInit ==
    /\ spackets \in SeqsUpTo(ScanPackets, MaxScanPackets)
    /\ sprefix \in ScanPrefixes
    /\ \E cut \in ScanCuts :
          LET all == sprefix \o ScanFlatten(spackets)
          IN /\ cut <= Len(all)
             /\ sbytes = SubSeq(all, 1, Len(all) - cut)
    /\ opcodes = PagingOpcodes(1)
    /\ pfo = PfoCall(opcodes)

\* Opcodes of which one begins with the second byte of another: the end code
\* of an extraction, the opcodes of a scan
OVERLAP_END == <<192, 160>>

OverlapOpcodes == <<CAPT_RASTER_SETUP, <<208, 160>>>>

\* payloads that hold the bytes of an opcode
LikePayloads == {<<>>, <<154, 154>>, SCOA_RASTER_DATA, CAPT_RASTER_END, CAPT_RASTER_SETUP}

\* extract_packets(b, opcode, end_code, n, yield_end) on a stream of packets
\* that all have the target or the end opcode
FramedExtractInit ==
    /\ opcode = SCOA_RASTER_DATA
    /\ end_code \in {CAPT_RASTER_END, OVERLAP_END}
    /\ packets \in SeqsUpTo([code : {SCOA_RASTER_DATA, CAPT_RASTER_END},
                             payload : LikePayloads \ {CAPT_RASTER_SETUP}], MaxFramed)
    /\ xbytes = Flatten(packets)
    /\ bpos = 0
    /\ n \in {<<>>, <<1>>}
    /\ yield_end \in BOOLEAN
    /\ last_byte = -1
    /\ i = 0
    /\ termi = FALSE
    /\ vleft = 0
    /\ xpc = "start"
    /\ yielded = <<>>

\* _packet_first_offsets(b, opcodes) on a stream of whole packets of every
\* declared length, their payloads holding the bytes of opcodes
FramedScanInit ==
    /\ opcodes \in {PagingOpcodes(1), OverlapOpcodes}
    /\ spackets \in SeqsUpTo(
          {[code |-> c, len |-> PACKET_HEADER_SIZE + Len(p), payload |-> p] :
              c \in {CAPT_RASTER_SETUP, SCOA_RASTER_DATA}, p \in LikePayloads \ {CAPT_RASTER_END}}
            \cup {[code |-> c, len |-> 0, payload |-> <<>>] :
                     c \in {CAPT_RASTER_SETUP, SCOA_RASTER_DATA}}, MaxFramed)
    /\ sprefix = <<>>
    /\ sbytes = ScanFlatten(spackets)
    /\ pfo = PfoCall(opcodes)

\* last_byte = next(b)
ScanStart ==
    /\ pfo.pc = "start"
    /\ pfo' = PfoStep(sbytes, opcodes, pfo)
    /\ UNCHANGED <<sbytes, opcodes, spackets, sprefix>>
    /\ UNCHANGED notScan

\* for x in b: the source is exhausted
ScanExhausted ==
    /\ pfo.pc = "scan"
    /\ pfo.pos = Len(sbytes)
    /\ pfo' = PfoStep(sbytes, opcodes, pfo)
    /\ UNCHANGED <<sbytes, opcodes, spackets, sprefix>>
    /\ UNCHANGED notScan

\* a window that is not the opcode sought
ScanSlide ==
    /\ pfo.pc = "scan"
    /\ pfo.pos < Len(sbytes)
    /\ <<pfo.last_byte, sbytes[pfo.pos + 1]>> # opcodes[pfo.i_op + 1]
    /\ pfo' = PfoStep(sbytes, opcodes, pfo)
    /\ UNCHANGED <<sbytes, opcodes, spackets, sprefix>>
    /\ UNCHANGED notScan

\* the opcode sought, not the last of the cycle: its offset is recorded and
\* the packet skipped
ScanMatch ==
    /\ pfo.pc = "scan"
    /\ pfo.pos < Len(sbytes)
    /\ <<pfo.last_byte, sbytes[pfo.pos + 1]>> = opcodes[pfo.i_op + 1]
    /\ pfo.i_op < Len(opcodes) - 1
    /\ PfoStep(sbytes, opcodes, pfo).pc # "error"
    /\ pfo' = PfoStep(sbytes, opcodes, pfo)
    /\ UNCHANGED <<sbytes, opcodes, spackets, sprefix>>
    /\ UNCHANGED notScan

\* the last opcode of the cycle: the tuple is yielded
ScanYield ==
    /\ pfo.pc = "scan"
    /\ pfo.pos < Len(sbytes)
    /\ <<pfo.last_byte, sbytes[pfo.pos + 1]>> = opcodes[pfo.i_op + 1]
    /\ pfo.i_op >= Len(opcodes) - 1
    /\ pfo' = PfoStep(sbytes, opcodes, pfo)
    /\ UNCHANGED <<sbytes, opcodes, spackets, sprefix>>
    /\ UNCHANGED notScan

\* the generator is resumed after the yield and skips the packet
ScanResume ==
    /\ pfo.pc = "yielded"
    /\ PfoStep(sbytes, opcodes, pfo).pc # "error"
    /\ pfo' = PfoStep(sbytes, opcodes, pfo)
    /\ UNCHANGED <<sbytes, opcodes, spackets, sprefix>>
    /\ UNCHANGED notScan

\* the source ends inside the length word or the bytes to skip
ScanTruncated ==
    /\ pfo.pc \in {"scan", "yielded"}
    /\ pfo.pc = "scan" =>
            /\ pfo.pos < Len(sbytes)
            /\ <<pfo.last_byte, sbytes[pfo.pos + 1]>> = opcodes[pfo.i_op + 1]
            /\ pfo.i_op < Len(opcodes) - 1
    /\ PfoStep(sbytes, opcodes, pfo).pc = "error"
    /\ pfo' = PfoStep(sbytes, opcodes, pfo)
    /\ UNCHANGED <<sbytes, opcodes, spackets, sprefix>>
    /\ UNCHANGED notScan

ScanNext ==
    \/ ScanStart
    \/ ScanExhausted
    \/ ScanSlide
    \/ ScanMatch
    \/ ScanYield
    \/ ScanResume
    \/ ScanTruncated

\* ------------------------------------- the generators run by a consumer
\* get_page consumes the generators of this module from inside one call:
\* the operators below run a generator, from its call on, up to its end or up
\* to the yield after which its consumer pulls no more.

\* the least position of a set of positions, or the end of the source
FirstPosition(qs, end) == IF qs = {} THEN end ELSE CHOOSE q \in qs : \A o \in qs : q <= o

\* the iterations of the for loop of _packet_first_offsets (lines 169-188)
\* up to the window at position q, none of which matches: each takes one
\* byte, keeps it as last_byte and counts it in i
PfoAdvanceTo(bs, f, q) ==
    IF q = f.pos THEN f
    ELSE [f EXCEPT !.pos = q, !.last_byte = bs[q], !.i = f.i + (q - f.pos)]

\* a scanning generator moved over the windows that do not match the opcode
\* it looks for, up to the first window that does or to the end of the source
PfoAdvance(bs, codes, f) ==
    IF f.pc # "scan" THEN f
    ELSE PfoAdvanceTo(bs, f,
             FirstPosition({q \in f.pos..(Len(bs) - 1) :
                               <<(IF q = f.pos THEN f.last_byte ELSE bs[q]), bs[q + 1]>>
                                   = codes[f.i_op + 1]},
                           Len(bs)))

\* _packet_first_offsets consumed to its end by a for loop or list()
RECURSIVE PfoRun(_, _, _)
PfoRun(bs, codes, f) ==
    IF f.pc \in {"done", "error"} THEN f
    ELSE PfoRun(bs, codes, PfoStep(bs, codes, PfoAdvance(bs, codes, f)))

\* the frame at the call extract_packets(b, ...), before the first next()
ExtractCall(p0) ==
    [pc |-> "start", pos |-> p0, last_byte |-> -1, x |-> -1, i |-> 0, termi |-> FALSE,
     vleft |-> 0, out |-> <<>>]

\* one run of extract_packets from a suspension point (or from one window of
\* the for loop) to the next; a is the record of its arguments
ExtractStep(bs, a, f) ==
    IF f.pc = "start"
    THEN IF f.pos < Len(bs)
         THEN [f EXCEPT !.pc = "scan", !.last_byte = bs[f.pos + 1], !.pos = f.pos + 1]
         ELSE [f EXCEPT !.pc = "error"]
    ELSE IF f.pc = "scan"
    THEN IF f.pos = Len(bs) THEN [f EXCEPT !.pc = "done"]
         ELSE IF LimitReached(a.n, f.i) THEN [f EXCEPT !.pc = "done", !.pos = f.pos + 1]
         ELSE LET x == bs[f.pos + 1]
                  code == <<f.last_byte, x>>
                  t == code = a.end_code
              IN IF code = a.opcode \/ t
                 THEN IF f.pos + 3 > Len(bs)
                      THEN [f EXCEPT !.pc = "error", !.pos = Len(bs), !.termi = t]
                      ELSE LET vlen == PayloadLen(bs[f.pos + 2], bs[f.pos + 3])
                               g == [f EXCEPT !.termi = t, !.x = x, !.pos = f.pos + 3]
                           IN IF SkipsEnd(t, a.yield_end)
                              THEN IF g.pos + RangeLen(vlen) > Len(bs)
                                   THEN [g EXCEPT !.pc = "error", !.pos = Len(bs)]
                                   ELSE [g EXCEPT !.pc = "done", !.pos = g.pos + RangeLen(vlen)]
                              ELSE IF RangeLen(vlen) > 0
                              THEN [g EXCEPT !.pc = "yield", !.vleft = RangeLen(vlen)]
                              ELSE IF t THEN [g EXCEPT !.pc = "done"]
                              ELSE [g EXCEPT !.i = f.i + 1, !.last_byte = x]
                 ELSE [f EXCEPT !.termi = FALSE, !.last_byte = x, !.pos = f.pos + 1]
    ELSE IF f.pc = "yield"
    THEN IF f.pos = Len(bs) THEN [f EXCEPT !.pc = "error"]
         ELSE LET g == [f EXCEPT !.out = Append(f.out, bs[f.pos + 1]), !.pos = f.pos + 1,
                                 !.vleft = f.vleft - 1]
              IN IF f.vleft > 1 THEN g
                 ELSE IF f.termi THEN [g EXCEPT !.pc = "done"]
                 ELSE [g EXCEPT !.pc = "scan", !.i = f.i + 1, !.last_byte = f.x]
    ELSE f

\* the iterations of the for loop of extract_packets (lines 209-232) up to
\* the window at position q, none of which matches: each takes one byte,
\* keeps it as last_byte and clears termi
ExtractAdvanceTo(bs, f, q) ==
    IF q = f.pos THEN f
    ELSE [f EXCEPT !.pos = q, !.last_byte = bs[q], !.termi = FALSE]

\* k bytes of the payload yielded one after the other (lines 225-226)
ExtractYieldMany(bs, f, k) ==
    IF k <= 0 THEN f
    ELSE [f EXCEPT !.out = f.out \o SubSeq(bs, f.pos + 1, f.pos + k), !.pos = f.pos + k,
                   !.vleft = f.vleft - k]

\* a generator moved on without leaving its loop: over the windows that are
\* neither the opcode nor the end code while it scans, over the bytes of a
\* payload but the last (and but the last the consumer pulls) while it yields
ExtractAdvance(bs, a, f, want) ==
    IF f.pc = "scan" /\ ~LimitReached(a.n, f.i)
    THEN ExtractAdvanceTo(bs, f,
             FirstPosition({q \in f.pos..(Len(bs) - 1) :
                               <<(IF q = f.pos THEN f.last_byte ELSE bs[q]), bs[q + 1]>>
                                   \in {a.opcode, a.end_code}},
                           Len(bs)))
    ELSE IF f.pc = "yield"
    THEN ExtractYieldMany(bs, f,
             Min(Min(f.vleft - 1, Len(bs) - f.pos),
                 IF want < 0 THEN f.vleft ELSE want - Len(f.out) - 1))
    ELSE f

\* extract_packets consumed until it has yielded want bytes, after which its
\* consumer pulls no more, or, with want = -1, to its end
RECURSIVE ExtractRun(_, _, _, _)
ExtractRun(bs, a, f, want) ==
    IF f.pc \in {"done", "error"} \/ Len(f.out) = want THEN f
    ELSE ExtractRun(bs, a, ExtractStep(bs, a, ExtractAdvance(bs, a, f, want)), want)

\* the loop over _writeout's chain run to its end: every byte is stored at
\* the current column and the column moves on
RECURSIVE WriteAll(_, _, _, _)
WriteAll(buf, ibuf, lsize, e) ==
    IF e = <<>> THEN [buf |-> buf, ibuf |-> ibuf]
    ELSE WriteAll(StoreByte(buf, ibuf, Head(e)), NextColumn(ibuf, lsize), lsize, Tail(e))

\* decode consumed to its end by bytes(): s holds the bytes its source
\* yields, srcerr tells that the source then raises instead of stopping, d is
\* the decoder, the position in s and the output so far
RECURSIVE DecodeRun(_, _, _)
DecodeRun(s, srcerr, d) ==
    IF d.pos = Len(s)
    THEN [d EXCEPT !.pc = IF srcerr THEN "error" ELSE StopOutcome("for"),
                   !.err = IF srcerr THEN "RuntimeError" ELSE "none"]
    ELSE LET r == ReadOpcode(s, d.pos + 1, Len(d.buf), d.ibuf)
             old == OldSlice(d.buf, d.ibuf, NP_PER_9F * r.npx + r.np)
             rep == [j \in 1..r.nr |-> r.rb]
             avail == IF r.zero THEN r.nu ELSE Min(r.nu, Len(s) - r.last)
             new == [j \in 1..avail |-> IF r.zero THEN 0 ELSE s[r.last + j]]
             e == old \o rep \o new
             w == WriteAll(d.buf, d.ibuf, Len(d.buf), e)
             after == [d EXCEPT !.pos = IF r.zero THEN r.last ELSE r.last + avail,
                                !.buf = w.buf, !.ibuf = w.ibuf, !.out = d.out \o e]
         IN IF r.res = "bad" THEN [d EXCEPT !.pc = "error", !.err = "ValueError", !.pos = r.last]
            ELSE IF r.res = "eop" THEN [d EXCEPT !.pc = "done", !.pos = r.last]
            ELSE IF r.res = "stop"
            THEN [d EXCEPT !.pc = StopOutcome("next"), !.err = "RuntimeError", !.pos = r.last]
            ELSE IF avail < r.nu
            THEN [after EXCEPT !.pc = StopOutcome("next"), !.err = "RuntimeError"]
            ELSE DecodeRun(s, srcerr, after)

\* SCoADecoder(line_size) followed by the call of decode: init_value is left
\* at its default b'\x00'
DecodeCall(lsize) ==
    [pc |-> "opcode", err |-> "none", pos |-> 0, buf |-> [c \in 1..lsize |-> 0],
     ibuf |-> 0, out |-> <<>>]

\* ------------------------------------------------------------- CAPTStream
MAGIC_SIZE == 8
RASTER_LINE_WIDTH_OFFSET == 26

\* the keys of VERSION_LOOKUP
Magic(v) ==
    IF v = 1 THEN <<1, 0, 24, 0, 206, 218, 222, 250>>
    ELSE <<1, 0, 40, 0, 206, 218, 222, 250>>

\* mutant of VersionLookup: the two magics have changed places
VersionLookup_Swapped(m) == IF m = Magic(1) THEN 2 ELSE IF m = Magic(2) THEN 1 ELSE 0

\* VERSION_LOOKUP[m]; 0 stands for the KeyError of a key that is not there
VersionLookup(m) == IF m = Magic(1) THEN 1 ELSE IF m = Magic(2) THEN 2 ELSE 0

\* self._fh.read(MAGIC_SIZE) right after open()
ReadMagic(bs) == SubSeq(bs, 1, Min(MAGIC_SIZE, Len(bs)))

\* mutant of ConfigOf: a version argument is taken also for a file
ConfigOf_ByArgument(has_path, arg, bs) ==
    IF ~has_path THEN [status |-> "ok", version |-> 0]
    ELSE IF arg # 0 THEN [status |-> "ok", version |-> arg]
    ELSE [status |-> IF VersionLookup(ReadMagic(bs)) = 0 THEN "KeyError" ELSE "ok",
          version |-> VersionLookup(ReadMagic(bs))]

\* __init__, which calls _set_config for an object with a path only: the
\* version of the configuration chosen for the object (0 if none is set) and
\* the exception, if any, that ends __init__; arg is the version argument, 0
\* for None
ConfigOf(has_path, arg, bs) ==
    IF ~has_path THEN [status |-> "ok", version |-> 0]
    ELSE [status |-> IF VersionLookup(ReadMagic(bs)) = 0 THEN "KeyError" ELSE "ok",
          version |-> VersionLookup(ReadMagic(bs))]

\* CONFIG[version]
PageHeaderSize(v) == IF v = 1 THEN 106 ELSE 118

RasterDataOpcode(v) == IF v = 1 THEN SCOA_RASTER_DATA ELSE HISCOA_RASTER_DATA

RasterEndOpcode(v) == CAPT_RASTER_END

\* 'SCOA', 'HSCA' in ASCII
CodecName(v) == IF v = 1 THEN <<83, 67, 79, 65>> ELSE <<72, 83, 67, 65>>

\* str.format of a non-negative int: its decimal digits in ASCII
RECURSIVE Dec(_)
Dec(k) == IF k < 10 THEN <<48 + k>> ELSE Dec(k \div 10) \o <<48 + (k % 10)>>

\* HEADER_FMT = "{fmt}\n{w} {h}\n{size}\n"
HEADER_FMT(fmt, w, h, size) ==
    fmt \o <<10>> \o Dec(w) \o <<32>> \o Dec(h) \o <<10>> \o Dec(size) \o <<10>>

\* P4_HEADER_FMT = "P4\n{w} {h}\n"
P4_HEADER_FMT(w, h) == <<80, 52, 10>> \o Dec(w) \o <<32>> \o Dec(h) \o <<10>>

\* mutant of PixelWidth: the line byte width is taken for the pixel width
PixelWidth_Bytes(lsize) == lsize

\* w=dims[0]*8
PixelWidth(lsize) == lsize * 8

\* get_offsets: one record for every tuple of the scanner
GetOffsets(tuples, v) ==
    [q \in 1..Len(tuples) |->
        <<tuples[q][1] - PageHeaderSize(v), tuples[q][1], tuples[q][2]>>]

\* if not self.offsets
NeedsScan(offs) == offs = <<>>

\* mutant of Raised: the exception takes the offsets table with it
Raised_Forgets(exc, offs, scanned) ==
    [status |-> exc, offsets |-> <<>>, scanned |-> scanned, header |-> <<>>,
     data |-> <<>>, dims |-> <<>>]

\* an exception leaves get_page
Raised(exc, offs, scanned) ==
    [status |-> exc, offsets |-> offs, scanned |-> scanned, header |-> <<>>,
     data |-> <<>>, dims |-> <<>>]

\* lines 322-328 of get_page: dd is the decoder run to its end
PageDecoded(offs1, need, dims, dd) ==
    IF dd.pc = "error" THEN Raised(dd.err, offs1, need)
    ELSE [status |-> "ok", offsets |-> offs1, scanned |-> need,
          header |-> P4_HEADER_FMT(PixelWidth(dims[1]), dims[2]),
          data |-> dd.out, dims |-> dims]

\* lines 311-328 of get_page: dims are the dimensions read, rx is the raster
\* extraction run to its end
PageOutput(v, offs1, need, out_format, dims, rx) ==
    IF out_format = "raw"
    THEN IF rx.pc = "error" THEN Raised("RuntimeError", offs1, need)
         ELSE [status |-> "ok", offsets |-> offs1, scanned |-> need,
               header |-> HEADER_FMT(CodecName(v), PixelWidth(dims[1]), dims[2], Len(rx.out)),
               data |-> rx.out, dims |-> dims]
    ELSE IF out_format = "p4"
    THEN PageDecoded(offs1, need, dims, DecodeRun(rx.out, rx.pc = "error", DecodeCall(dims[1])))
    ELSE Raised("ValueError", offs1, need)

\* mutant of RasterDims: the offsets are counted from the packet header
RasterDims_FromHeader(ys) ==
    <<WORD(ys[RASTER_LINE_WIDTH_OFFSET - PACKET_HEADER_SIZE + 1],
           ys[RASTER_LINE_WIDTH_OFFSET - PACKET_HEADER_SIZE + 2]),
      WORD(ys[RASTER_LINE_WIDTH_OFFSET - PACKET_HEADER_SIZE + 3],
           ys[RASTER_LINE_WIDTH_OFFSET - PACKET_HEADER_SIZE + 4])>>

\* extract_raster_dims on the bytes ys that rast_iter yields: the first
\* RASTER_LINE_WIDTH_OFFSET are dropped, the next four are line_size and h
RasterDims(ys) ==
    <<WORD(ys[RASTER_LINE_WIDTH_OFFSET + 1], ys[RASTER_LINE_WIDTH_OFFSET + 2]),
      WORD(ys[RASTER_LINE_WIDTH_OFFSET + 3], ys[RASTER_LINE_WIDTH_OFFSET + 4])>>

\* extract_raster_dims, then the extraction of the raster from where the
\* source was left
PageRaster(bs, v, offs1, need, out_format, dm) ==
    IF Len(dm.out) < RASTER_LINE_WIDTH_OFFSET + 4
    THEN Raised(IF dm.pc = "error" THEN "RuntimeError" ELSE "StopIteration", offs1, need)
    ELSE PageOutput(v, offs1, need, out_format, RasterDims(dm.out),
            ExtractRun(bs, [opcode |-> RasterDataOpcode(v), end_code |-> RasterEndOpcode(v),
                            n |-> <<>>, yield_end |-> FALSE],
                       ExtractCall(dm.pos), -1))

\* lines 302-310 of get_page: the page number is checked, the source is set
\* at the raster-setup offset of the page
PageSeek(bs, v, offs1, need, page, out_format) ==
    IF page > Len(offs1) \/ page < 1 THEN Raised("IndexError", offs1, need)
    ELSE PageRaster(bs, v, offs1, need, out_format,
            ExtractRun(bs, [opcode |-> CAPT_RASTER_SETUP, end_code |-> <<>>,
                            n |-> <<1>>, yield_end |-> FALSE],
                       ExtractCall(offs1[page][2]), RASTER_LINE_WIDTH_OFFSET + 4))

\* lines 295-298 of get_page: sc is the scanner run to its end
PageIndex(bs, v, offs, page, out_format, sc) ==
    IF sc.pc = "error" THEN Raised("RuntimeError", offs, TRUE)
    ELSE PageSeek(bs, v, GetOffsets(sc.out, v), TRUE, page, out_format)

\* get_page(page, out_format) on the file bs with self.offsets = offs
get_page(has_path, bs, v, offs, page, out_format) ==
    IF ~has_path THEN Raised("ValueError", offs, FALSE)
    ELSE IF NeedsScan(offs)
    THEN PageIndex(bs, v, offs, page, out_format,
                   PfoRun(bs, PagingOpcodes(v), PfoCall(PagingOpcodes(v))))
    ELSE PageSeek(bs, v, offs, FALSE, page, out_format)

\* ------------------------------------------------------------- job files
\* A page of a job file: w is the line byte width and h the height its
\* raster-setup packet announces, tail tells that the payload of that packet
\* goes on, after the height, with the bytes of a raster-data packet, data
\* holds the payloads of its raster-data packets and endp the payload of its
\* raster-end packet.
PageKinds ==
    {[w |-> 1, h |-> 1, tail |-> FALSE, data |-> <<<<65>>>>, endp |-> <<>>],
     [w |-> 2, h |-> 1, tail |-> FALSE, data |-> <<<<65>>, <<65>>>>, endp |-> <<1>>],
     [w |-> 1, h |-> 2, tail |-> TRUE, data |-> <<<<65, 65>>>>, endp |-> <<>>],
     [w |-> 2, h |-> 2, tail |-> FALSE, data |-> <<<<82>>>>, endp |-> <<>>]}

Zeroes(k) == [j \in 1..k |-> 0]

RasterSetup(pg, v) ==
    [code |-> CAPT_RASTER_SETUP,
     payload |-> Zeroes(RASTER_LINE_WIDTH_OFFSET)
                   \o <<pg.w % 256, pg.w \div 256, pg.h % 256, pg.h \div 256>>
                   \o (IF pg.tail THEN RasterDataOpcode(v) \o <<5, 0, 66>> ELSE <<>>)]

\* the packets of a page after its page header
PagePackets(pg, v) ==
    <<RasterSetup(pg, v)>>
      \o (IF v = 2 THEN <<[code |-> CAPT_HISCOA_PARAMS, payload |-> <<0, 0>>]>> ELSE <<>>)
      \o [j \in 1..Len(pg.data) |-> [code |-> RasterDataOpcode(v), payload |-> pg.data[j]]]
      \o <<[code |-> RasterEndOpcode(v), payload |-> pg.endp]>>

PageBytes(pg, v) == Zeroes(PageHeaderSize(v)) \o Flatten(PagePackets(pg, v))

RECURSIVE PagesBytes(_, _)
PagesBytes(pgs, v) ==
    IF pgs = <<>> THEN <<>> ELSE PageBytes(Head(pgs), v) \o PagesBytes(Tail(pgs), v)

FileBytes(pgs, v) == Magic(v) \o PagesBytes(pgs, v)

\* how many bytes the end of a job file lacks
PageCuts == {0, 5}

\* a job file that lost its last bytes, none of them of the magic
CutFile(bs, cut) ==
    IF Len(bs) <= MAGIC_SIZE THEN bs
    ELSE SubSeq(bs, 1, Len(bs) - Min(cut, Len(bs) - MAGIC_SIZE))

\* the first bytes of the files: the magic of the version the pages are laid
\* out for, eight other bytes, fewer than eight bytes
MagicChoices(v) ==
    {Magic(v), <<1, 0, 56, 0, 206, 218, 222, 250>>, <<1, 0, 24, 0, 206, 218, 222, 251>>,
     <<1, 0, 24>>}

\* the version argument of CAPTStream(...): None, 1, 2
VersionArgs == {0, 1, 2}

NoCtor == [path |-> FALSE, arg |-> 0, status |-> "none"]

NoCall == [status |-> "none", page |-> 0, out_format |-> "none", header |-> <<>>,
           data |-> <<>>, dims |-> <<>>]

PageIdle ==
    /\ file = <<>>
    /\ version = 0
    /\ offsets = <<>>
    /\ ret = NoCall
    /\ scans = 0
    /\ ctor = NoCtor
    /\ pages = <<>>

\* CAPTStream(path, version=arg) with the bytes bs in the file at path
CAPTStreamNew(has_path, arg, bs) ==
    /\ file = bs
    /\ ctor = [path |-> has_path, arg |-> arg, status |-> ConfigOf(has_path, arg, bs).status]
    /\ version = ConfigOf(has_path, arg, bs).version
    /\ offsets = <<>>
    /\ ret = NoCall
    /\ scans = 0

\* CAPTStream(path) on a job file of pages laid out for its version
CAPTStreamInit ==
    /\ pages \in SeqsUpTo(PageKinds, MaxPages)
    /\ \E v \in {1, 2}, cut \in PageCuts :
          CAPTStreamNew(TRUE, 0, CutFile(FileBytes(pages, v), cut))

\* the first page of pgs with a page header of hl bytes
PagesBytesHeaded(pgs, v, hl) ==
    IF pgs = <<>> THEN <<>>
    ELSE Zeroes(hl) \o Flatten(PagePackets(Head(pgs), v)) \o PagesBytes(Tail(pgs), v)

\* CAPTStream(path, version=arg) on any file, or without a path: the file
\* starts with the magic of a version or with other bytes, and its first page
\* has a whole page header or none
CAPTStreamOpen ==
    /\ pages \in SeqsUpTo(PageKinds, MaxOpenPages)
    /\ \E has_path \in BOOLEAN, arg \in VersionArgs, v \in {1, 2} :
          \E m \in MagicChoices(v), hl \in {0, PageHeaderSize(v)} :
              /\ (~has_path \/ Len(m) < MAGIC_SIZE) => pages = <<>>
              /\ CAPTStreamNew(has_path, arg,
                     IF has_path THEN m \o PagesBytesHeaded(pages, v, hl) ELSE <<>>)

\* the call with the arguments page and out_format ends with the outcome r
Returns(r, page, out_format) ==
    /\ offsets' = r.offsets
    /\ scans' = IF r.scanned THEN scans + 1 ELSE scans
    /\ ret' = [status |-> r.status, page |-> page, out_format |-> out_format,
               header |-> r.header, data |-> r.data, dims |-> r.dims]

OutFormats == {"raw", "p4", "pbm"}

\* one call of get_page
GetPage ==
    /\ ctor.status = "ok"
    /\ \E page \in 0..(MaxPages + 1), out_format \in OutFormats :
          /\ NeedsScan(offsets) => scans < MaxScans
          /\ Returns(get_page(ctor.path, file, version, offsets, page, out_format),
                     page, out_format)
    /\ UNCHANGED <<file, version, ctor, pages>>
    /\ UNCHANGED notPage

PageNext == GetPage

\* --------------------------------------------------------- specifications
InitScoa == ScoaInit /\ ExtractIdle /\ ScanIdle /\ PageIdle

SpecScoa == InitScoa /\ [][ScoaNext]_vars

InitNew == ScoaNew /\ ExtractIdle /\ ScanIdle /\ PageIdle

SpecNew == InitNew /\ [][ScoaNext]_vars

InitOpcode == ScoaLong /\ ExtractIdle /\ ScanIdle /\ PageIdle

SpecOpcode == InitOpcode /\ [][ScoaNext]_vars

InitAgain == ScoaFirst /\ ExtractIdle /\ ScanIdle /\ PageIdle

SpecAgain == InitAgain /\ [][ScoaNext \/ DecodeAgain]_vars

InitDispatch == ScoaAnyFirst /\ ExtractIdle /\ ScanIdle /\ PageIdle

SpecDispatch == InitDispatch /\ [][ScoaNext]_vars

InitFraming ==
    \/ FramedScanInit /\ ExtractIdle /\ ScoaIdle /\ PageIdle
    \/ FramedExtractInit /\ ScanIdle /\ ScoaIdle /\ PageIdle

SpecFraming == InitFraming /\ [][ScanNext \/ ExtractNext]_vars

InitExtract == ExtractInit /\ ScoaIdle /\ ScanIdle /\ PageIdle

SpecExtract == InitExtract /\ [][ExtractNext]_vars

InitScan == ScanInit /\ ScoaIdle /\ ExtractIdle /\ PageIdle

SpecScan == InitScan /\ [][ScanNext]_vars

InitOpen == CAPTStreamOpen /\ ScoaIdle /\ ExtractIdle /\ ScanIdle

SpecOpen == InitOpen /\ [][PageNext]_vars

InitPage == CAPTStreamInit /\ ScoaIdle /\ ExtractIdle /\ ScanIdle

SpecPage == InitPage /\ [][PageNext]_vars

\* ------------------------------------------------ properties of the decoder
\* the bytes the opcode last read has emitted so far
Emitted == SubSeq(out, op.outlen + 1, Len(out))

\* the last opcode read is complete: its whole expansion was emitted
OpcodeDone == pc \in {"opcode", "done"} /\ op.b # -1

\* k previous-line bytes from column col on, going on at column 0 of the
\* next line when the line ends
PrevBytes(buf, col, k) == [j \in 1..k |-> buf[((col + j - 1) % Len(buf)) + 1]]

Repeated(x, k) == [j \in 1..k |-> x]

\* the line buffer after the bytes of s were written from column col on, one
\* byte per column, the line ending after column Len(buf)-1
RECURSIVE RingWrite(_, _, _)
RingWrite(buf, col, s) ==
    IF s = <<>> THEN buf
    ELSE RingWrite([buf EXCEPT ![col + 1] = Head(s)], (col + 1) % Len(buf), Tail(s))

\* C1: every two-bit-prefix opcode expands to old, repeat, new in this order:
\* 00hhhlll gives lll previous-line bytes from the current column on, then the
\* hhh following input bytes; 01hhhlll (not 0x40, 0x41, 0x42) gives lll
\* previous-line bytes, then hhh copies of the next input byte; 11hhhlll with
\* hhh > 0 and lll > 0 gives hhh copies of the next input byte, then the lll
\* following input bytes.
C1_TwoBitPrefixExpansion ==
    OpcodeDone =>
        LET hhh == (op.b \div 8) % 8
            lll == op.b % 8
            pre == op.b \div 64
        IN /\ pre = 0 =>
                Emitted = PrevBytes(op.buf, op.col, lll)
                            \o SubSeq(biter, op.at + 2, op.at + 1 + hhh)
           /\ (pre = 1 /\ op.b \notin {SCOA_NOP, SCOA_EOL, SCOA_EOP}) =>
                Emitted = PrevBytes(op.buf, op.col, lll)
                            \o Repeated(biter[op.at + 2], hhh)
           /\ (pre = 3 /\ hhh > 0 /\ lll > 0) =>
                Emitted = Repeated(biter[op.at + 2], hhh)
                            \o SubSeq(biter, op.at + 3, op.at + 2 + lll)

\* C2: whenever a line has just been completed (the column is back at 0) the
\* line buffer holds the line_size bytes emitted last, and every old byte
\* emitted at column c of a later line is the byte emitted at column c of the
\* line before it.
C2_PrevLineIsLastEmitted ==
    /\ (i_buf = 0 /\ Len(out) >= line_size) =>
            buffer = SubSeq(out, Len(out) - line_size + 1, Len(out))
    /\ \A k \in 1..Len(out) :
            (okind[k] = "old" /\ k > line_size) => out[k] = out[k - line_size]

\* an old byte of a later line that is not the init fill has just completed
\* a line
C2_Witness ==
    /\ pc = "opcode"
    /\ i_buf = 0
    /\ Len(out) > line_size
    /\ okind[Len(out)] = "old"
    /\ out[Len(out)] \notin InitValues

\* C3: an EOL read at column i_buf emits exactly the line_size - i_buf bytes
\* of the previous line at columns i_buf..line_size-1 and leaves the column
\* at 0; read at column 0 it emits the whole previous line.
C3_EOLPadsFromPrevLine ==
    (OpcodeDone /\ op.b = SCOA_EOL) =>
        /\ Len(Emitted) = line_size - op.col
        /\ Emitted = SubSeq(op.buf, op.col + 1, line_size)
        /\ i_buf = 0

\* an EOL read in the middle of a line whose first column is not the init fill
C3_Witness ==
    /\ OpcodeDone
    /\ op.b = SCOA_EOL
    /\ op.col > 0
    /\ op.buf[1] \notin InitValues
    /\ Len(Emitted) = line_size - op.col

\* C4: when the expansion of one opcode is longer than what is left of the
\* line, no byte is dropped: all n_prev + n_rep + n_new bytes are emitted and
\* written column by column, the excess from column 0 of the next line, and
\* the columns not written keep the previous line's bytes (opcodes with a
\* sub-opcode byte that matches no prefix are left out: C7 has them fail).
C4_OverflowWrapsNoByteDropped ==
    (/\ OpcodeDone
     /\ op.b # SCOA_EOP
     /\ ~op.fell
     /\ op.col + counts[1] + counts[2] + counts[3] > line_size) =>
        /\ Len(Emitted) = counts[1] + counts[2] + counts[3]
        /\ buffer = RingWrite(op.buf, op.col, Emitted)

\* C5: when decode succeeds the number of bytes emitted is the sum over the
\* opcodes processed of n_prev + n_rep + n_new, and it is a multiple of
\* line_size when EOP was read at column 0 (inputs with a sub-opcode byte that
\* matches no prefix are left out: C7 has them fail).
C5_OutputLengthIsSumOfCounts ==
    (pc = "done" /\ ~op.fell) =>
        /\ Len(out) = total
        /\ (op.b = SCOA_EOP /\ op.col = 0) => Len(out) % line_size = 0

\* C6: an EOP read in opcode position ends decode at once: nothing is emitted
\* and no input is taken after it, and the line buffer and the column stay as
\* they were; decode ends normally in no other way than by such an EOP or at
\* the end of the input after a complete expansion, so a 0x42 taken as a
\* repeat byte or a literal does not end it.
C6_EOPTerminates ==
    /\ op.b = SCOA_EOP =>
            /\ pc = "done"
            /\ err = "none"
            /\ pos = op.at + 1
            /\ Len(out) = op.outlen
            /\ buffer = op.buf
            /\ i_buf = op.col
    /\ (pc = "done" /\ op.b # SCOA_EOP) => (pos = Len(biter) /\ WoEmpty(wo))

\* decode ended by an EOP that follows a 0x42 taken as data, after output
C6_Witness ==
    /\ pc = "done"
    /\ op.b = SCOA_EOP
    /\ op.at >= 2
    /\ biter[op.at] = SCOA_EOP
    /\ Len(out) > 0

\* C7: a sub-opcode byte with prefix 11 or 100 after an OLD_LONG first byte,
\* or a third byte with prefix 00 or 01 after a 101 sub-opcode, makes decode
\* fail with the unrecognised-opcode error.
C7_BadSubOpcodeFails ==
    (op.b # -1 /\ op.b \div 32 = 4 /\ op.b # SCOA_LONG_OLDB_248 /\ Len(biter) >= op.at + 2) =>
        LET b2 == biter[op.at + 2]
            bad2 == b2 \div 64 = 3 \/ b2 \div 32 = 4
            bad3 == /\ b2 \div 32 = 5
                    /\ Len(biter) >= op.at + 3
                    /\ biter[op.at + 3] \div 64 \in {0, 1}
        IN (bad2 \/ bad3) => (pc = "error" /\ err = "ValueError")

\* the first byte of an opcode after which the code reads at least one more
\* byte before it emits anything
OwesByte(x) ==
    \/ (x \div 64 = 1 /\ x \notin {SCOA_NOP, SCOA_EOL, SCOA_EOP})
    \/ (x \div 64 = 3 /\ (x \div 8) % 8 > 0 /\ x % 8 > 0)
    \/ x \div 32 \in {4, 5}

\* C8: the input ending where an opcode still owes a sub-opcode byte, a
\* repeat byte or a literal ends decode in the failure, never normally; the
\* input ending at an opcode boundary ends decode normally.
C8_UnexpectedEnd ==
    /\ [](pc = "done" => (err = "none" /\ WoEmpty(wo)))
    /\ [](pc = "error" => (err = "RuntimeError" /\ pos = Len(biter)))
    /\ [][ /\ (pc = "opcode" /\ pos = Len(biter)) => (pc' = "done" /\ err' = "none")
           /\ (pc = "opcode" /\ pos + 1 = Len(biter) /\ OwesByte(biter[Len(biter)]))
                => (pc' = "error" /\ err' = "RuntimeError")
           /\ (pc = "writeout" /\ wo.old = <<>> /\ wo.nr = 0 /\ wo.nu > 0
                 /\ ~wo.zero /\ pos = Len(biter))
                => (pc' = "error" /\ err' = "RuntimeError" /\ out' = out)
         ]_vars

\* the input ended inside the literals of an opcode that had emitted bytes
C8_Witness ==
    /\ pc = "error"
    /\ err = "RuntimeError"
    /\ wo.nu > 0
    /\ Len(out) > op.outlen

\* ---------------------------------------------- properties of the extractor
\* the payloads of the packets with the target opcode that come before the
\* first packet with the end opcode, and of at most k of them
RECURSIVE TargetPayloads(_, _)
TargetPayloads(ps, k) ==
    IF ps = <<>> \/ k = 0 THEN <<>>
    ELSE IF Head(ps).code = end_code THEN <<>>
    ELSE IF Head(ps).code = opcode
    THEN Head(ps).payload \o TargetPayloads(Tail(ps), k - 1)
    ELSE TargetPayloads(Tail(ps), k)

\* No window the extractor examines outside the opcode fields looks like the
\* target or end opcode: no two adjacent bytes that start after the first byte
\* of a packet with another opcode, and the second byte of the target opcode
\* begins neither opcode.
CleanStream ==
    /\ opcode[2] \notin {opcode[1], end_code[1]}
    /\ \A k \in 1..Len(packets) :
        packets[k].code \notin {opcode, end_code} =>
            LET nxt == IF k < Len(packets) THEN <<packets[k + 1].code[1]>> ELSE <<>>
                ext == Frame(packets[k]) \o nxt
            IN \A j \in 2..(Len(ext) - 1) : <<ext[j], ext[j + 1]>> \notin {opcode, end_code}

ExtractEnded == xpc \in {"done", "error"}

\* C9 as stated: on any sequence of well-formed packets, with n unset, exactly
\* the payloads of the target packets before the first end packet are
\* yielded.
C9_ExtractsTargetPayloads ==
    (ExtractEnded /\ n = <<>> /\ ~yield_end) =>
        yielded = TargetPayloads(packets, Len(packets))

\* C9 amended: the same, for streams in which no two adjacent bytes starting
\* inside a packet of another opcode, after its first byte, equal the target
\* or the end opcode; on a non-empty stream the extraction then ends normally.
C9_ExtractsTargetPayloadsOfCleanStream ==
    (ExtractEnded /\ n = <<>> /\ ~yield_end /\ CleanStream) =>
        /\ yielded = TargetPayloads(packets, Len(packets))
        /\ packets # <<>> => xpc = "done"

\* another packet, a target packet with a payload, then the end packet
C9_Witness ==
    /\ xpc = "done"
    /\ n = <<>> /\ ~yield_end
    /\ CleanStream
    /\ Len(packets) = 3
    /\ packets[1].code \notin {opcode, end_code} /\ packets[1].payload # <<>>
    /\ packets[2].code = opcode /\ packets[2].payload # <<>>
    /\ packets[3].code = end_code
    /\ yielded = packets[2].payload

\* the number of target packets before the first end packet
RECURSIVE TargetCount(_)
TargetCount(ps) ==
    IF ps = <<>> THEN 0
    ELSE IF Head(ps).code = end_code THEN 0
    ELSE IF Head(ps).code = opcode THEN 1 + TargetCount(Tail(ps))
    ELSE TargetCount(Tail(ps))

IsPrefix(s, t) == Len(s) <= Len(t) /\ s = SubSeq(t, 1, Len(s))

\* C10: with a packet count n >= 0 nothing but the payloads of the first n
\* target packets is ever yielded: no byte of a later target packet, and no
\* byte of an end packet that comes after the n-th target packet, even with
\* yield_end true.
C10_AtMostNPackets ==
    (n # <<>> /\ CleanStream /\ (~yield_end \/ TargetCount(packets) >= n[1])) =>
        IsPrefix(yielded, TargetPayloads(packets, n[1]))

\* the position in packets of the first packet with the end opcode, 0 if
\* there is none
EndIndex ==
    IF \E k \in 1..Len(packets) : packets[k].code = end_code
    THEN CHOOSE k \in 1..Len(packets) :
            /\ packets[k].code = end_code
            /\ \A j \in 1..(k - 1) : packets[j].code # end_code
    ELSE 0

\* an end packet comes before n target packets
EndComesFirst ==
    /\ EndIndex > 0
    /\ n # <<>> => TargetCount(packets) < n[1]

\* C11: when the end packet comes before n target packets were extracted (or
\* n is unset), on a stream whose only opcode-like windows are opcode fields:
\* with yield_end true the payload of the end packet is yielded after the
\* target payloads, with yield_end false no byte of it; either way nothing
\* else is yielded, the extraction ends normally and the source is left at
\* the first byte after the end packet.
C11_EndPacketStops ==
    (CleanStream /\ EndComesFirst) =>
        LET targets == TargetPayloads(packets, Len(packets))
            all == IF yield_end THEN targets \o packets[EndIndex].payload ELSE targets
        IN /\ IsPrefix(yielded, all)
           /\ ExtractEnded =>
                /\ xpc = "done"
                /\ yielded = all
                /\ bpos = Len(Flatten(SubSeq(packets, 1, EndIndex)))

\* a target payload, then the payload of the end packet were yielded, and a
\* packet that follows the end packet was left in the source
C11_Witness ==
    /\ xpc = "done"
    /\ yield_end
    /\ CleanStream /\ EndComesFirst
    /\ EndIndex = 2 /\ Len(packets) = 3
    /\ packets[1].code = opcode /\ packets[1].payload # <<>>
    /\ packets[2].payload # <<>>
    /\ yielded = packets[1].payload \o packets[2].payload
    /\ bpos < Len(xbytes)

\* ------------------------------------------------ properties of the scanner
ScanEnded == pfo.pc \in {"done", "error"}

\* the offset in sbytes of the first opcode byte of the j-th packet
PacketOffset(j) == Len(sprefix) + Len(ScanFlatten(SubSeq(spackets, 1, j - 1)))

\* the source holds every byte of every packet
Untruncated == Len(sbytes) = Len(sprefix) + Len(ScanFlatten(spackets))

\* the offset after the packet that starts at offset p, by its declared
\* length; -1 if no length word lies at p
PacketEnd(p) ==
    IF p >= 0 /\ p + 4 <= Len(sbytes) THEN p + WORD(sbytes[p + 3], sbytes[p + 4]) ELSE -1

\* the offset of the first window equal to code that starts at offset from
\* or later; -1 if there is none
FirstOccurrence(code, from) ==
    LET hits == {q \in 0..(Len(sbytes) - 2) :
                    q >= from /\ <<sbytes[q + 1], sbytes[q + 2]>> = code}
    IN IF from < 0 \/ hits = {} THEN -1
       ELSE CHOOSE q \in hits : \A r \in hits : q <= r

\* C12: every emitted tuple holds in slot j the offset of the first
\* occurrence of opcode oj that starts after the packet recorded in slot j-1
\* (slot 0: after the last packet of the previous tuple, or from the start of
\* the stream), and its slots are strictly increasing.
C12_FirstOccurrenceRecorded ==
    \A q \in 1..Len(pfo.out) :
        LET t == pfo.out[q]
            k == Len(opcodes)
        IN \A j \in 1..k :
            LET from == IF j > 1 THEN PacketEnd(t[j - 1])
                        ELSE IF q > 1 THEN PacketEnd(pfo.out[q - 1][k])
                        ELSE 0
            IN /\ t[j] = FirstOccurrence(opcodes[j], from)
               /\ j > 1 => t[j - 1] < t[j]

\* the packets are m complete cycles of the opcodes, each with a declared
\* length of at least the header size, and the source is not truncated
CompleteCycles ==
    /\ Untruncated
    /\ Len(spackets) % Len(opcodes) = 0
    /\ \A j \in 1..Len(spackets) :
          /\ spackets[j].code = opcodes[((j - 1) % Len(opcodes)) + 1]
          /\ spackets[j].len >= PACKET_HEADER_SIZE

\* the tuples of the offsets of the packets, cycle by cycle
CycleOffsets ==
    [q \in 1..(Len(spackets) \div Len(opcodes)) |->
        [j \in 1..Len(opcodes) |-> PacketOffset((q - 1) * Len(opcodes) + j)]]

\* C13: on prefix bytes without opcode followed by m complete cycles of
\* packets, each of any declared length L >= 4, exactly m tuples are emitted
\* and they hold exactly the offsets of the first opcode byte of the packets.
C13_CompleteCyclesAllFound ==
    CompleteCycles =>
        /\ IsPrefix(pfo.out, CycleOffsets)
        /\ ScanEnded => pfo.out = CycleOffsets

\* C14: on every stream, also with packets that declare a length below 4, no
\* offset is emitted twice and the first fields of successive tuples are
\* strictly increasing.
C14_OffsetsNeverRepeat ==
    /\ \A q \in 1..(Len(pfo.out) - 1) : pfo.out[q][1] < pfo.out[q + 1][1]
    /\ \A q, r \in 1..Len(pfo.out) : \A j, k \in 1..Len(opcodes) :
          (q # r \/ j # k) => pfo.out[q][j] # pfo.out[r][k]

\* C15: a source that ends before the tuple in progress is complete, also
\* inside the length word or the declared payload of a matched packet, ends
\* the scan without an error and without the partial tuple, and the tuples
\* emitted before stay as they were.
C15_TruncatedSourceEndsSilently ==
    /\ [](pfo.pc # "error")
    /\ [][pfo.pc # "idle" => IsPrefix(pfo.out, pfo.out')]_vars

\* -------------------------------------------- properties of the page reader
\* a call of get_page on a job file has ended
Called == ctor.path /\ ret.status # "none"

\* the job file holds every byte of its pages
WholeFile == file = FileBytes(pages, version)

\* the offset in the file of the page header of page q
PageStart(q) == MAGIC_SIZE + Len(PagesBytes(SubSeq(pages, 1, q - 1), version))

\* the offset of the raster-setup packet of page q
SetupOffset(q) == PageStart(q) + PageHeaderSize(version)

\* the offset of the packet after the raster-setup packet of page q: the
\* Hi-SCoA parameters in CAPT 2, the first raster data in CAPT 1
AfterSetupOffset(q) == SetupOffset(q) + Len(Frame(RasterSetup(pages[q], version)))

\* the offset of the first raster-data packet of page q
DataOffset(q) ==
    IF version = 1 THEN AfterSetupOffset(q)
    ELSE AfterSetupOffset(q) + Len(Frame([code |-> CAPT_HISCOA_PARAMS, payload |-> <<0, 0>>]))

StrictlyIncreasing(s) == \A j \in 1..(Len(s) - 1) : s[j] < s[j + 1]

\* C16: the offsets table holds for every page a record of three offsets
\* (CAPT 1) or four (CAPT 2); its first element is the raster-setup offset
\* minus page_header_size, its last element is the offset of the first
\* raster-data packet of the page, and its elements are strictly increasing.
C16_OffsetRecords ==
    Called /\ WholeFile =>
        /\ Len(offsets) = Len(pages)
        /\ \A q \in 1..Len(offsets) :
              /\ Len(offsets[q]) = (IF version = 1 THEN 3 ELSE 4)
              /\ offsets[q][2] = SetupOffset(q)
              /\ offsets[q][1] = offsets[q][2] - PageHeaderSize(version)
              /\ offsets[q][Len(offsets[q])] = DataOffset(q)
              /\ StrictlyIncreasing(offsets[q])

\* C17: over any sequence of get_page calls the file is scanned for page
\* offsets at most once; a later call, also one after a failed call or on a
\* job without pages, leaves the stored offsets table as it is.
C17_ScannedAtMostOnce ==
    /\ [](scans <= 1)
    /\ [][Called => offsets' = offsets]_vars

\* the payloads of the raster-data packets of a page, one after the other
RECURSIVE RasterPayload(_)
RasterPayload(ds) == IF ds = <<>> THEN <<>> ELSE Head(ds) \o RasterPayload(Tail(ds))

\* the offsets in the file of the opcode fields of the packets of page q
OpcodeFieldsOf(q) ==
    {SetupOffset(q) + Len(Flatten(SubSeq(PagePackets(pages[q], version), 1, j - 1))) :
        j \in 1..Len(PagePackets(pages[q], version))}

OpcodeFields == UNION {OpcodeFieldsOf(q) : q \in 1..Len(pages)}

\* the opcodes that get_page looks for in a file of this version
SoughtOpcodes ==
    {PagingOpcodes(version)[j] : j \in 1..Len(PagingOpcodes(version))}
        \cup {RasterEndOpcode(version)}

\* two adjacent bytes that are not the opcode field of a packet equal a
\* sought opcode
StrayOpcode ==
    \E k \in 0..(Len(file) - 2) :
        /\ <<file[k + 1], file[k + 2]>> \in SoughtOpcodes
        /\ k \notin OpcodeFields

\* a complete job file whose sought opcodes are all opcode fields
CleanFile == WholeFile /\ ~StrayOpcode

\* a call get_page(p, 'raw') for a page p of the job has ended
RawCalled == Called /\ ret.out_format = "raw" /\ ret.page \in 1..Len(pages)

\* what the claim expects of the raw output of page pg
RawPageOf(pg) ==
    /\ ret.header = CodecName(version) \o <<10>> \o Dec(8 * pg.w) \o <<32>> \o Dec(pg.h)
                       \o <<10>> \o Dec(Len(ret.data)) \o <<10>>
    /\ ret.data = RasterPayload(pg.data)
    /\ (version = 1 /\ pg.w = 1 /\ pg.h = 1 /\ Len(ret.data) = 1)
          => ret.header = <<83, 67, 79, 65, 10, 56, 32, 49, 10, 49, 10>>

P4Returned ==
    /\ Called /\ ret.out_format = "p4" /\ ret.status = "ok"
    /\ ret.page \in 1..Len(pages)
    /\ version = 1

\* the SCoA stream of page pg holds nothing but end-of-line opcodes
OnlyEOL(pg) == \A j \in 1..Len(RasterPayload(pg.data)) : RasterPayload(pg.data)[j] = SCOA_EOL

\* the P4 output of a page pg of end-of-line opcodes on a decoder whose line
\* buffer holds the byte fill: the header, then one line of fill for every
\* opcode
P4PageOfFill(pg, fill) ==
    /\ ret.header = <<80, 52, 10>> \o Dec(8 * pg.w) \o <<32>> \o Dec(pg.h) \o <<10>>
    /\ ret.data = [j \in 1..(pg.w * Len(RasterPayload(pg.data))) |-> fill]

\* C19: get_page(p, 'p4') returns 'P4\n{w} {h}\n' followed by the output of
\* an SCoA decoder of line_size = line byte width whose first scan line
\* copies the init fill 0xF0 from the previous line: a page of line width 1
\* and height 1 with the SCoA payload 0x41 yields the body byte 0xF0.
C19_P4PageCopiesInitFill ==
    P4Returned /\ CleanFile /\ OnlyEOL(pages[ret.page]) =>
        /\ P4PageOfFill(pages[ret.page], 240)
        /\ (pages[ret.page].w = 1 /\ pages[ret.page].h = 1
              /\ RasterPayload(pages[ret.page].data) = <<SCOA_EOL>>)
             => ret.header \o ret.data = <<80, 52, 10, 56, 32, 49, 10, 240>>

\* C20: the body of every P4 output of get_page has exactly ceil(w/8) * h
\* bytes, the line byte width times the height that its header announces
\* (w is 8 times the line byte width), whatever the SCoA stream decodes to.
C20_P4BodySize ==
    Called /\ ret.out_format = "p4" /\ ret.status = "ok" =>
        /\ ret.header = <<80, 52, 10>> \o Dec(8 * ret.dims[1]) \o <<32>> \o Dec(ret.dims[2])
                           \o <<10>>
        /\ Len(ret.data) = ret.dims[1] * ret.dims[2]

\* the scan of the file for page offsets ends with an exception
ScanFails ==
    PfoRun(file, PagingOpcodes(version), PfoCall(PagingOpcodes(version))).pc = "error"

\* the last call of get_page asked for a page that is not in the table
InvalidPageCalled == Called /\ ~ScanFails /\ ret.page \notin 1..Len(offsets)

\* C21: a call of get_page with a page number below 1 or above the number
\* of detected pages fails with IndexError (invalid page) and returns no
\* data; it leaves the discovered offsets table as it is, and a later call
\* with a valid page number still returns the page.
C21_InvalidPage ==
    /\ [](InvalidPageCalled =>
            /\ ret.status = "IndexError"
            /\ ret.header = <<>> /\ ret.data = <<>>
            /\ WholeFile => Len(offsets) = Len(pages))
    /\ [][(Called /\ ~ScanFails /\ ret'.page \notin 1..Len(offsets)) =>
            offsets' = offsets]_vars
    /\ [][(InvalidPageCalled /\ CleanFile /\ ret'.page \in 1..Len(pages)
              /\ ret'.out_format = "raw") =>
            /\ ret'.status = "ok"
            /\ ret'.data = RasterPayload(pages[ret'.page].data)]_vars

\* a call for a page above the number of pages of a job with pages has
\* failed after an earlier call found the table
C21_Witness ==
    /\ InvalidPageCalled
    /\ ret.status = "IndexError"
    /\ offsets # <<>>
    /\ ret.page > Len(offsets)
    /\ scans = 1

\* C22: get_page(p, 'p4') on a CAPT 2 job, whose codec is HiSCoA, fails with
\* the NoDecoder error (the ValueError of MSG_NO_DECODER) and returns no P4
\* output: the SCoA decoder is not run on its raster data.
C22_NoDecoderForHiSCoA ==
    (/\ Called /\ ~ScanFails
     /\ ret.out_format = "p4"
     /\ version = 2
     /\ ret.page \in 1..Len(offsets)) =>
        /\ ret.status = "ValueError"
        /\ ret.header = <<>> /\ ret.data = <<>>

\* the object is made for a job file
OnFile == ctor.path

\* C23: CAPTStream(path, version) on a job file sets the CAPT 1 configuration
\* when bytes 0..7 of the file are the CAPT 1 magic and the CAPT 2
\* configuration when they are the CAPT 2 magic, whatever the version
\* argument; with any other first bytes the constructor ends with the
\* KeyError of the version lookup and no configuration is set.
C23_ConfigByMagic ==
    OnFile =>
        /\ ReadMagic(file) = <<1, 0, 24, 0, 206, 218, 222, 250>> =>
                ctor.status = "ok" /\ version = 1
        /\ ReadMagic(file) = <<1, 0, 40, 0, 206, 218, 222, 250>> =>
                ctor.status = "ok" /\ version = 2
        /\ ReadMagic(file) \notin {<<1, 0, 24, 0, 206, 218, 222, 250>>,
                                   <<1, 0, 40, 0, 206, 218, 222, 250>>} =>
                ctor.status = "KeyError" /\ version = 0 /\ ret.status = "none"

\* a CAPT 1 file opened with version=2 has been read as CAPT 1
C23_Witness ==
    /\ OnFile /\ ctor.arg = 2 /\ version = 1 /\ ctor.status = "ok"
    /\ ReadMagic(file) = <<1, 0, 24, 0, 206, 218, 222, 250>>
    /\ ret.status = "ok" /\ ret.page = 1

\* a file with eight other bytes in front has been refused
C23_WitnessUnknown ==
    OnFile /\ Len(file) > MAGIC_SIZE /\ ctor.status = "KeyError" /\ ctor.arg = 1

\* C24: no decoder runs with a line buffer of no bytes: every opcode that
\* decode() reads is read by a decoder whose line_size is 1 or more and whose
\* buffer holds line_size bytes, SCoADecoder() having raised for every other
\* line_size and for every init_value that is not one byte long.
C24_NoEmptyLineBuffer ==
    op.b # (0 - 1) => (line_size >= 1 /\ Len(buffer) = line_size)

\* the source of the scan starts with a raster-setup packet whose declared
\* length is below the four bytes of its own header
ShortLengthFirst ==
    /\ pfo.pc # "idle" /\ sprefix = <<>> /\ spackets # <<>>
    /\ spackets[1].code = CAPT_RASTER_SETUP
    /\ spackets[1].len < PACKET_HEADER_SIZE

\* C25: a packet whose declared length is below 4 is refused: once the scanner
\* has read the header of such a packet it is in error, and it yields no
\* offsets tuple that holds the packet's offset.
C25_ShortLengthRejected ==
    (ShortLengthFirst /\ pfo.pos >= PACKET_HEADER_SIZE) =>
        pfo.pc = "error" /\ pfo.out = <<>>

\* C26: every record of the offsets table has its page header at or after
\* the end of the magic: its first offset is MAGIC_SIZE or more, a tuple
\* whose raster-setup offset less page_header_size is below MAGIC_SIZE having
\* been left out.
C26_PageHeaderAfterMagic ==
    \A q \in 1..Len(offsets) : offsets[q][1] >= MAGIC_SIZE

\* ------------------------------------------- properties of the long opcodes
\* decode has computed the counts of the opcode it read last
OpcodeRead == pc \in {"opcode", "writeout", "done"} /\ op.b # -1

\* the first byte of the opcode read last is 101vvvvv; its sub-opcode
LongRepeatRead == OpcodeRead /\ op.b \div 32 = 5

SubOpcode == biter[op.at + 2]

\* the opcode read last starts with k bytes 0x9F and, or, a byte 100vvvvv
LongOldRead == OpcodeRead /\ op.b \div 32 = 4

NinesRead == Count9F(biter, op.at + 1)

\* the place in biter of the sub-opcode of the old_Long opcode read last, and
\* the v of its byte 100vvvvv, 0 if there is none
LongOldSubAt ==
    IF biter[op.at + NinesRead + 1] \div 32 = 4 THEN op.at + NinesRead + 2
    ELSE op.at + NinesRead + 1

LongOldV ==
    IF biter[op.at + NinesRead + 1] \div 32 = 4 THEN biter[op.at + NinesRead + 1] % 32
    ELSE 0

\* the last k bytes of s
LastOf(s, k) == SubSeq(s, Len(s) - k + 1, Len(s))

\* C27: after a first byte 101vvvvv, the sub-opcode 00hhhlll gives
\* n_rep = 8v + hhh and n_new = lll, the repeat byte being the byte after the
\* sub-opcode and the literals the lll bytes after it; 10hhhlll gives
\* n_rep = 8v + hhh and n_prev = lll; 11hhhlll gives n_new = 8v + hhh,
\* n_rep = 0 and n_prev = lll. After an old_Long first byte, the sub-opcode
\* 101wwwww with the third byte 10hhhlll (11hhhlll) gives n_rep (n_new)
\* = 8w + hhh, and n_prev is 248 for each 0x9F plus 8v plus lll.
C27_LongCounts ==
    /\ LongRepeatRead =>
          LET v == op.b % 32
              hhh == (SubOpcode \div 8) % 8
              lll == SubOpcode % 8
              pre == SubOpcode \div 64
          IN /\ pre = 0 =>
                  /\ counts = <<0, 8 * v + hhh, lll>>
                  /\ OpcodeDone =>
                        /\ Emitted = Repeated(biter[op.at + 3], 8 * v + hhh)
                                        \o SubSeq(biter, op.at + 4, op.at + 3 + lll)
                        /\ pos = op.at + 3 + lll
             /\ pre = 2 =>
                  /\ counts = <<lll, 8 * v + hhh, 0>>
                  /\ OpcodeDone =>
                        /\ LastOf(Emitted, 8 * v + hhh) = Repeated(biter[op.at + 3], 8 * v + hhh)
                        /\ pos = op.at + 3
             /\ pre = 3 =>
                  /\ counts = <<lll, 0, 8 * v + hhh>>
                  /\ OpcodeDone =>
                        /\ LastOf(Emitted, 8 * v + hhh)
                             = SubSeq(biter, op.at + 3, op.at + 2 + 8 * v + hhh)
                        /\ pos = op.at + 2 + 8 * v + hhh
    /\ (LongOldRead /\ biter[LongOldSubAt] \div 32 = 5) =>
          LET w == biter[LongOldSubAt] % 32
              third == biter[LongOldSubAt + 1]
              hhh == (third \div 8) % 8
              lll == third % 8
              n_prev == NP_PER_9F * NinesRead + 8 * LongOldV + lll
          IN /\ third \div 64 = 2 =>
                  /\ counts = <<n_prev, 8 * w + hhh, 0>>
                  /\ OpcodeDone =>
                        LastOf(Emitted, 8 * w + hhh)
                          = Repeated(biter[LongOldSubAt + 2], 8 * w + hhh)
             /\ third \div 64 = 3 =>
                  /\ counts = <<n_prev, 0, 8 * w + hhh>>
                  /\ OpcodeDone =>
                        LastOf(Emitted, 8 * w + hhh)
                          = SubSeq(biter, LongOldSubAt + 2, LongOldSubAt + 1 + 8 * w + hhh)

\* a1 0a rb x y was expanded to ten bytes rb, x, y
C27_Witness ==
    /\ LongRepeatRead /\ OpcodeDone /\ op.b = 161 /\ SubOpcode = 18
    /\ counts = <<0, 10, 2>> /\ Len(Emitted) = 12

\* 9f 81 a1 92 rb: 258 previous-line bytes and ten times rb were asked for
C27_WitnessThirdByte ==
    /\ LongOldRead /\ OpcodeDone /\ NinesRead = 1 /\ LongOldV = 1
    /\ biter[LongOldSubAt] = 161 /\ biter[LongOldSubAt + 1] = 146
    /\ counts = <<258, 10, 0>>

\* C28 as stated: after a first byte 101vvvvv the sub-opcode 01hhhlll is
\* new-only: n_new = 8v + hhh, n_rep = 0, no repeat byte is read, and the
\* 8v + hhh bytes after the sub-opcode are consumed and emitted.
C28_LongNewOnly ==
    (LongRepeatRead /\ SubOpcode \div 64 = 1) =>
        LET v == op.b % 32
            hhh == (SubOpcode \div 8) % 8
        IN /\ counts = <<0, 0, 8 * v + hhh>>
           /\ OpcodeDone =>
                 /\ Emitted = SubSeq(biter, op.at + 3, op.at + 2 + 8 * v + hhh)
                 /\ pos = op.at + 2 + 8 * v + hhh

\* C28: after a first byte 101vvvvv the sub-opcode 01hhhlll gives
\* n_new = 8v + lll and n_rep = hhh: the byte after the sub-opcode is read
\* as the repeat byte, and the opcode emits hhh copies of it and then the
\* 8v + lll bytes that follow it.
C28_LongNewRepeat ==
    (LongRepeatRead /\ SubOpcode \div 64 = 1) =>
        LET v == op.b % 32
            hhh == (SubOpcode \div 8) % 8
            lll == SubOpcode % 8
        IN /\ counts = <<0, hhh, 8 * v + lll>>
           /\ OpcodeDone =>
                 /\ Emitted = Repeated(biter[op.at + 3], hhh)
                                 \o SubSeq(biter, op.at + 4, op.at + 3 + 8 * v + lll)
                 /\ pos = op.at + 3 + 8 * v + lll

\* a1 51 rb and nine literals were expanded to rb, rb and the literals
C28_Witness ==
    /\ LongRepeatRead /\ OpcodeDone /\ op.b = 161 /\ SubOpcode = 81
    /\ counts = <<0, 2, 9>> /\ Len(Emitted) = 11

\* the previous-line bytes that the opcode read last has emitted
OldBytesEmitted ==
    Cardinality({j \in (op.outlen + 1)..Len(okind) : okind[j] = "old"})

\* C29: k bytes 0x9F, then a byte 100vvvvv and a sub-opcode 00hhhlll or
\* 01hhhlll, copy 248k + 8v + lll bytes of the previous line, with
\* n_new = hhh, n_rep = hhh; without the byte 100vvvvv they copy 248k + lll.
C29_LongOldCopied ==
    (LongOldRead /\ biter[LongOldSubAt] \div 64 \in {0, 1}) =>
        LET hhh == (biter[LongOldSubAt] \div 8) % 8
            lll == biter[LongOldSubAt] % 8
            n_prev == NP_PER_9F * NinesRead + 8 * LongOldV + lll
        IN /\ counts = IF biter[LongOldSubAt] \div 64 = 0 THEN <<n_prev, 0, hhh>>
                       ELSE <<n_prev, hhh, 0>>
           /\ OpcodeDone => OldBytesEmitted = n_prev

\* the opcode read last is 11hhhlll with hhh = 0 or lll = 0
ZeroCountRead ==
    OpcodeDone /\ op.b \div 64 = 3 /\ ((op.b \div 8) % 8 = 0 \/ op.b % 8 = 0)

\* C30 as stated: 11hhhlll with hhh = 0 or lll = 0 takes no further input
\* byte and emits lll bytes of value 0.
C30_ZeroCountNewOnly ==
    ZeroCountRead => (pos = op.at + 1 /\ Emitted = Repeated(0, op.b % 8))

\* C30: 11hhhlll with hhh = 0 or lll = 0 takes no further input byte, so
\* that the byte after it is the next opcode, and emits hhh + lll bytes of
\* value 0.
C30_ZeroCountZeroes ==
    /\ [](ZeroCountRead =>
            (pos = op.at + 1 /\ Emitted = Repeated(0, ((op.b \div 8) % 8) + (op.b % 8))))
    /\ [][(ZeroCountRead /\ op' # op) => op'.at = op.at + 1 /\ op'.b = biter[op.at + 2]]_vars

\* d0 was expanded to two zero bytes and the byte after it read as an opcode
C30_Witness ==
    /\ op.at = 1 /\ biter[1] = 208 /\ SubSeq(out, 1, 2) = <<0, 0>> /\ op.outlen = 2

\* ---------------------------------------- properties of the packet framing
\* the scanner is about to examine a window equal to the opcode it seeks
ScanMatching ==
    /\ pfo.pc = "scan"
    /\ pfo.pos < Len(sbytes)
    /\ <<pfo.last_byte, sbytes[pfo.pos + 1]>> = opcodes[pfo.i_op + 1]

\* the extractor is about to examine a window equal to the target or the end
\* opcode
ExtractMatching ==
    /\ xpc = "scan"
    /\ bpos < Len(xbytes)
    /\ ~LimitReached(n, i)
    /\ <<last_byte, xbytes[bpos + 1]>> \in {opcode, end_code}

\* the declared length read from the two bytes after source position p, and
\* the number of payload bytes it declares
LengthAt(bs, p) == WORD(bs[p + 1], bs[p + 2])

DeclaredPayload(bs, p) == RangeLen(LengthAt(bs, p) - PACKET_HEADER_SIZE)

\* whole packets with a payload, in one or more complete cycles of the CAPT
\* opcodes
PayloadCycles ==
    /\ opcodes = PagingOpcodes(1)
    /\ spackets # <<>>
    /\ CompleteCycles
    /\ \A j \in 1..Len(spackets) : spackets[j].len > PACKET_HEADER_SIZE

\* the payloads the extractor is to yield from packets that all have the
\* target or the end opcode
FramedPayloads ==
    TargetPayloads(packets, Len(packets) + 1)
        \o (IF yield_end /\ EndIndex > 0 THEN packets[EndIndex].payload ELSE <<>>)

\* C31: the length field and the declared payload of a matched packet are
\* consumed without being examined as opcodes. The scanner, whose windows are
\* examined in its scan state only, leaves the length field and the payload
\* behind in the step that matches the packet (or, for the last opcode of a
\* cycle, in the step after the yield) and never moves back; the extractor
\* leaves the length field behind in the matching step and examines no window
\* until the last payload byte was yielded. So cycles of packets whose
\* payloads hold the sought opcodes give exactly the packets' offsets, and
\* target and end packets whose payloads hold the target or end opcode give
\* exactly the payloads up to the first end packet.
C31_PayloadNeverExamined ==
    /\ []((PayloadCycles /\ ScanEnded) => (pfo.pc = "done" /\ pfo.out = CycleOffsets))
    /\ []((end_code = CAPT_RASTER_END /\ n = <<>> /\ packets # <<>> /\ ExtractEnded) =>
            (xpc = "done" /\ yielded = FramedPayloads))
    /\ [][/\ pfo.pc # "idle" => pfo'.pos >= pfo.pos
          /\ xpc # "idle" => bpos' >= bpos
          /\ ScanMatching =>
                \/ pfo'.pc = "error"
                \/ pfo'.pc = "yielded" /\ pfo'.pos = pfo.pos + 1
                \/ /\ pfo'.pc = "scan"
                   /\ pfo'.pos >= pfo.pos + 3 + DeclaredPayload(sbytes, pfo.pos + 1)
          /\ pfo.pc = "yielded" =>
                \/ pfo'.pc = "error"
                \/ /\ pfo'.pc = "scan"
                   /\ pfo'.pos >= pfo.pos + 2 + DeclaredPayload(sbytes, pfo.pos)
          /\ ExtractMatching =>
                \/ xpc' = "error"
                \/ /\ xpc' = "yield"
                   /\ bpos' = bpos + 3
                   /\ vleft' = DeclaredPayload(xbytes, bpos + 1)
                \/ /\ xpc' \in {"scan", "done"}
                   /\ bpos' = bpos + 3 + DeclaredPayload(xbytes, bpos + 1)
          /\ xpc = "yield" =>
                \/ xpc' = "error"
                \/ /\ bpos' = bpos + 1
                   /\ vleft' = vleft - 1
                   /\ xpc' = IF vleft' > 0 THEN "yield" ELSE xpc'
                   /\ vleft' = 0 => xpc' \in {"scan", "done"}]_vars

\* the scanner ended on the three packets of the test case with opcode-like
\* content cut to one cycle of two, and the extractor on a target packet
\* that holds the end opcode and is followed by an end packet
C31_Witness ==
    \/ /\ PayloadCycles /\ pfo.pc = "done"
       /\ Len(spackets) = 2
       /\ spackets[1].payload = SCOA_RASTER_DATA
       /\ spackets[2].payload = CAPT_RASTER_SETUP
       /\ pfo.out = <<<<0, 6>>>>
    \/ /\ end_code = CAPT_RASTER_END /\ n = <<>> /\ xpc = "done"
       /\ Len(packets) = 2
       /\ packets[1] = [code |-> SCOA_RASTER_DATA, payload |-> CAPT_RASTER_END]
       /\ packets[2].code = CAPT_RASTER_END
       /\ yielded = CAPT_RASTER_END

\* the bytes the scanner is to skip after the length field of a packet of
\* declared length len, as C32 states them
SkipStated(len) == IF len = 0 THEN 1 ELSE len - PACKET_HEADER_SIZE

\* C32: a step that matches a packet of declared length L and skips it (for
\* the last opcode of a cycle: the step after the yield) moves the source
\* past the second opcode byte, the length field and exactly L - 4 further
\* bytes for L >= 4, exactly one further byte for L = 0, and moves the offset
\* counter as far as the source.
C32_SkipByLength ==
    [][/\ (ScanMatching /\ pfo'.pc = "scan") =>
            LET len == LengthAt(sbytes, pfo.pos + 1)
            IN /\ (len >= PACKET_HEADER_SIZE \/ len = 0) =>
                    pfo'.pos = pfo.pos + 3 + SkipStated(len)
               /\ pfo'.i - pfo.i = pfo'.pos - pfo.pos
       /\ (pfo.pc = "yielded" /\ pfo'.pc = "scan") =>
            LET len == LengthAt(sbytes, pfo.pos)
            IN /\ (len >= PACKET_HEADER_SIZE \/ len = 0) =>
                    pfo'.pos = pfo.pos + 2 + SkipStated(len)
               /\ pfo'.i - pfo.i = pfo'.pos - pfo.pos + 1]_vars

\* C33: when the scanner, resumed after it yielded a tuple, has skipped the
\* packet of the last opcode of the cycle, the source is at the offset the
\* tuple records for that packet plus the packet's declared length.
C33_ResumesAfterPacket ==
    [][(pfo.pc = "yielded" /\ pfo'.pc = "scan") =>
            pfo'.pos = pfo.out[Len(pfo.out)][Len(opcodes)] + LengthAt(sbytes, pfo.pos)]_vars

\* C38: the step in which the scanner or the extractor has consumed a
\* matched packet leaves no window that matches an opcode: the window made of
\* the packet's second opcode byte and the first byte after the packet is
\* not taken for an opcode, whatever the opcodes are.
C38_NoWindowAcrossPacketEnd ==
    [][/\ ((ScanMatching \/ pfo.pc = "yielded") /\ pfo'.pc = "scan") => ~ScanMatching'
       /\ ((ExtractMatching \/ xpc = "yield") /\ xpc' = "scan") => ~ExtractMatching']_vars

\* ------------------------------------------- properties of the dimensions
\* the two bytes of the job file at offset q, counted from 0, as a
\* little-endian word
FileWord(q) == file[q + 1] + 256 * file[q + 2]

\* the offset in the job file of the header of the raster-setup packet of
\* the page get_page returned
SetupHeader == offsets[ret.page][2]

\* get_page returned a page and its header holds 8 times lsize as width and
\* h as height
PageOfSize(lsize, h) ==
    /\ SubSeq(file, SetupHeader + 1, SetupHeader + 2) = CAPT_RASTER_SETUP
    /\ ret.dims = <<lsize, h>>
    /\ ret.header = IF ret.out_format = "raw"
                    THEN HEADER_FMT(CodecName(version), 8 * lsize, h, Len(ret.data))
                    ELSE P4_HEADER_FMT(8 * lsize, h)

\* C34 as stated: the line byte width and the height are the words at bytes
\* 26..27 and 28..29 counted from the start of the 4-byte header of the
\* raster-setup packet, and the pixel width of the page is 8 times the line
\* byte width.
C34_DimsFromHeaderStart ==
    (Called /\ ret.status = "ok") =>
        PageOfSize(FileWord(SetupHeader + RASTER_LINE_WIDTH_OFFSET),
                   FileWord(SetupHeader + RASTER_LINE_WIDTH_OFFSET + 2))

\* C34: the line byte width and the height are the words at bytes 26..27 and
\* 28..29 of the payload of the raster-setup packet, which are bytes 30..31
\* and 32..33 counted from the start of its 4-byte header, and the pixel
\* width of the page is 8 times the line byte width.
C34_DimsFromPayloadStart ==
    (Called /\ ret.status = "ok") =>
        PageOfSize(FileWord(SetupHeader + PACKET_HEADER_SIZE + RASTER_LINE_WIDTH_OFFSET),
                   FileWord(SetupHeader + PACKET_HEADER_SIZE + RASTER_LINE_WIDTH_OFFSET + 2))

\* a page of 2 bytes by 1 line was returned with a width of 16 pixels
C34_Witness ==
    /\ Called /\ ret.status = "ok"
    /\ ret.dims = <<2, 1>>
    /\ FileWord(SetupHeader + PACKET_HEADER_SIZE + RASTER_LINE_WIDTH_OFFSET) = 2
    /\ ret.out_format = "p4"
    /\ ret.header = <<80, 52, 10, 49, 54, 32, 49, 10>>

\* ------------------------------------------ properties of the cursors
\* C35: during one decode the input cursor never decreases, and whenever the
\* decoder is about to read an opcode the cursor equals the number of input
\* bytes consumed.
C35_CursorCountsInput ==
    /\ [](pc = "opcode" => i_in = pos)
    /\ [][pc # "idle" => i_in' >= i_in]_vars

\* C36: on a decoder with line_size > 0 the column index is always inside
\* the line buffer, so that every write is inside it, and whenever the decoder
\* is about to read an opcode or has returned, the column index is the number
\* of bytes emitted modulo line_size and the line counter that number divided
\* by line_size.
C36_ColumnAndLineCountEmitted ==
    (pc \notin {"idle", "raised"} /\ line_size > 0) =>
        /\ 0 <= i_buf /\ i_buf < line_size
        /\ Len(buffer) = line_size
        /\ err # "IndexError"
        /\ pc \in {"opcode", "done"} =>
              /\ i_buf = Len(out) % line_size
              /\ i_line = Len(out) \div line_size

\* the third line was begun: more than two lines of bytes were emitted and
\* the decoder is about to read the next opcode inside a line
C36_Witness ==
    /\ pc = "opcode" /\ line_size > 0
    /\ i_line = 2 /\ i_buf > 0
    /\ Len(out) = 2 * line_size + i_buf

\* ------------------------------------- properties of the first-level dispatch
\* the branch of decode's first-level dispatch that the prefix bits of the
\* byte b name: 0x40, 0x41, 0x42, or the prefixes 00, 01, 11, 100, 101
BranchOfPrefix(b) ==
    IF b \in {64, 65, 66} THEN <<"NOP", "EOL", "EOP">>[b - 63]
    ELSE IF b \div 64 = 0 THEN "OLD_NEW"
    ELSE IF b \div 64 = 1 THEN "OLD_REPEAT"
    ELSE IF b \div 64 = 3 THEN "REPEAT_NEW"
    ELSE IF b \div 32 = 4 THEN "LONG_OLDB"
    ELSE IF b \div 32 = 5 THEN "LONG_REPEAT"
    ELSE "none"

\* C37: whatever byte is read in first-opcode position, the first-level
\* dispatch takes the branch of its prefix bits and the decode never fails
\* with the error of an unrecognised opcode.
C37_EveryFirstByteDispatched ==
    /\ err # "ValueError"
    /\ (pc = "opcode" /\ pos < Len(biter)) =>
          /\ Dispatch(biter[pos + 1]) = BranchOfPrefix(biter[pos + 1])
          /\ Dispatch(biter[pos + 1]) # "unrecognised"

\* the byte bf, of the prefix 101 that the dispatch tests last, was read as
\* the first opcode and decoded with the byte after it
C37_Witness ==
    /\ op.at = 0 /\ op.b = 191
    /\ pos >= 2
    /\ pc # "error"

\* ---------------------------------------------- properties of a second decode
\* the bytes the decode in progress has yielded
YieldedNow == SubSeq(out, prior.outlen + 1, Len(out))

\* the decoder as a decode on the input s would find it, with the line
\* buffer buf and the column index ibuf
DecoderWith(buf, ibuf) ==
    [pc |-> "opcode", err |-> "none", pos |-> 0, buf |-> buf, ibuf |-> ibuf, out |-> <<>>]

\* what a newly constructed decoder with the same line_size and init_value
\* yields for the input of the decode in progress
FreshOutput ==
    DecodeRun(biter, FALSE,
              DecoderWith([c \in 1..line_size |-> CHOOSE v \in InitValues : TRUE], 0)).out

\* the second decode has ended
SecondEnded == prior.calls = 2 /\ pc \in {"done", "error"}

\* C39: a call of decode on a decoder that has decoded a stream sets the
\* input cursor to 0 and leaves the line buffer, the column index and the line
\* counter as the previous decode left them; the second decode then yields
\* what a decoder yields that starts with that line buffer and that column,
\* its previous-line bytes being those the first stream left in the buffer,
\* and the line counter goes on from its old value. When the second decode
\* starts at column 0 and copies, in its first line, a byte that the first
\* stream has changed, its output differs from that of a new decoder.
C39_SecondDecodeKeepsLineState ==
    /\ [](SecondEnded =>
            /\ YieldedNow = DecodeRun(biter, FALSE, DecoderWith(prior.buffer, prior.i_buf)).out
            /\ i_line = prior.i_line + ((prior.i_buf + Len(YieldedNow)) \div line_size)
            /\ \A k \in 1..Len(YieldedNow) :
                  (okind[prior.outlen + k] = "old" /\ k + prior.i_buf <= line_size) =>
                      YieldedNow[k] = prior.buffer[prior.i_buf + k]
            /\ (/\ prior.i_buf = 0
                /\ \E k \in 1..Min(Len(YieldedNow), line_size) :
                      /\ okind[prior.outlen + k] = "old"
                      /\ prior.buffer[k] \notin InitValues) => YieldedNow # FreshOutput)
    /\ [][prior'.calls = prior.calls + 1 =>
            /\ i_in' = 0
            /\ buffer' = buffer /\ i_buf' = i_buf /\ i_line' = i_line
            /\ line_size' = line_size /\ counts' = counts /\ count_9f' = count_9f]_vars

\* the first stream left 5a in the line of a one-byte decoder and the second
\* stream, an end of line, yielded it where a new decoder yields f0
C39_Witness ==
    /\ SecondEnded /\ pc = "done"
    /\ biter = <<SCOA_EOL>>
    /\ prior.buffer = <<90>> /\ prior.i_line > 0
    /\ YieldedNow = <<90>>
    /\ FreshOutput = <<240>>

====
